---- MODULE Spec2Model ----
(***************************************************************************)
(* Model of the agent orchestrator of code-execution-with-mcp:             *)
(*   - parseEvent / processBuffer / streamClaudeTurn (SSE decoder and      *)
(*     content assembler),                                                 *)
(*   - createAgentResponse (the turn/tool loop and its outbound events),   *)
(*   - runTool / runJavaScript as far as the loop observes them,           *)
(*   - the StreamData variant of createAgentResponse (lib/agent.ts),       *)
(*   - the execute route, the agent route, and the todo_manager and        *)
(*     kb_lookup tools,                                                    *)
(*   - the client component AgentDemo.                                     *)
(*                                                                         *)
(* JavaScript strings that the code cuts, trims or concatenates are        *)
(* sequences of symbols.  A wire symbol is a record: [c |-> s] is the      *)
(* literal text s (a line break, a blank, a field prefix, an event name,   *)
(* text that is no JSON), [json |-> d] is the JSON text of the document d. *)
(***************************************************************************)
EXTENDS Integers, Sequences, FiniteSets, TLC

(***************************************************************************)
(* Bounds of the model.                                                    *)
(***************************************************************************)
MaxReads == 3
MaxTurns == 2
MaxExchanges == 2
MaxFrames == 2
MaxTurnReads == 4
MaxFragments == 4
MaxTodos == 5
MaxCalls == 2

(***************************************************************************)
(* Generic sequence helpers.                                               *)
(***************************************************************************)
RECURSIVE Concat(_)
Concat(ss) == IF ss = <<>> THEN <<>> ELSE Head(ss) \o Concat(Tail(ss))

RECURSIVE SeqFilter(_, _)
SeqFilter(s, keep) ==
  IF s = <<>> THEN <<>>
  ELSE IF Head(s) \in keep THEN <<Head(s)>> \o SeqFilter(Tail(s), keep)
       ELSE SeqFilter(Tail(s), keep)

IsPrefix(p, s) == Len(p) <= Len(s) /\ SubSeq(s, 1, Len(p)) = p

(***************************************************************************)
(* Wire symbols.                                                           *)
(***************************************************************************)
NL == [c |-> "\n"]
SP == [c |-> " "]
Lit(s) == [c |-> s]
Js(d) == [json |-> d]
EventPrefix == Lit("event:")
DataPrefix == Lit("data:")
DoneLiteral == Lit("[DONE]")

\* String.prototype.indexOf("\n\n"): 0 when absent, else the 1-based position
\* of the first of two consecutive line breaks.
RECURSIVE IndexOfBlankLine(_, _)
IndexOfBlankLine(s, from) ==
  IF from + 1 > Len(s) THEN 0
  ELSE IF s[from] = NL /\ s[from + 1] = NL THEN from
       ELSE IndexOfBlankLine(s, from + 1)

\* String.prototype.split("\n")
RECURSIVE SplitLines(_)
SplitLines(s) ==
  LET nlAt == CHOOSE i \in 1..(Len(s) + 1) :
                /\ (i <= Len(s) => s[i] = NL)
                /\ \A j \in 1..(i - 1) : s[j] # NL
  IN IF nlAt > Len(s) THEN <<s>>
     ELSE <<SubSeq(s, 1, nlAt - 1)>> \o SplitLines(SubSeq(s, nlAt + 1, Len(s)))

\* String.prototype.trim() on a line of wire symbols: blanks at both ends go.
RECURSIVE TrimLeft(_, _)
TrimLeft(s, ws) ==
  IF s # <<>> /\ Head(s) \in ws THEN TrimLeft(Tail(s), ws) ELSE s

RECURSIVE TrimRight(_, _)
TrimRight(s, ws) ==
  IF s # <<>> /\ s[Len(s)] \in ws THEN TrimRight(SubSeq(s, 1, Len(s) - 1), ws) ELSE s

TrimWire(s) == TrimRight(TrimLeft(s, {SP}), {SP})

StartsWith(s, sym) == s # <<>> /\ Head(s) = sym


(***************************************************************************)
(* parseEvent: one raw frame (the text before a blank line) to an event.   *)
(* The result is NullEvent (frame skipped) or [event, done, data], where   *)
(* data is {} when the frame has no payload and {d} for a payload d.       *)
(***************************************************************************)
NullEvent == [kind |-> "null"]

\* JSON.parse of a payload text: {} when it throws, {d} when it yields d.
JSONParsePayload(text) ==
  IF Len(text) = 1 /\ "json" \in DOMAIN text[1] THEN {text[1].json} ELSE {}

RECURSIVE ScanLines(_, _, _)
ScanLines(lines, event, dataLines) ==
  IF lines = <<>> THEN [event |-> event, dataLines |-> dataLines]
  ELSE LET line == Head(lines)
       IN IF TrimWire(line) = <<>> THEN ScanLines(Tail(lines), event, dataLines)
          ELSE IF StartsWith(line, EventPrefix)
                 THEN ScanLines(Tail(lines), TrimWire(Tail(line)), dataLines)
          ELSE IF StartsWith(line, DataPrefix)
                 THEN ScanLines(Tail(lines), event, Append(dataLines, TrimWire(Tail(line))))
          ELSE ScanLines(Tail(lines), event, dataLines)

\* Mutant: a payload that is no JSON is dropped and the event is kept.
parseEvent_KeepsEventOfBadPayload(raw) ==
  LET scan == ScanLines(SplitLines(raw), <<>>, <<>>)
      dataPayload == Concat(scan.dataLines)
  IN IF scan.event = <<>> /\ scan.dataLines = <<>> THEN NullEvent
     ELSE IF dataPayload = <<>>
            THEN [kind |-> "event", event |-> scan.event, done |-> FALSE, data |-> {}]
     ELSE IF dataPayload = <<DoneLiteral>>
            THEN [kind |-> "event", event |-> scan.event, done |-> TRUE, data |-> {}]
     ELSE [kind |-> "event", event |-> scan.event, done |-> FALSE,
           data |-> JSONParsePayload(dataPayload)]

parseEvent(raw) ==
  LET scan == ScanLines(SplitLines(raw), <<>>, <<>>)
      dataPayload == Concat(scan.dataLines)
  IN IF scan.event = <<>> /\ scan.dataLines = <<>> THEN NullEvent
     ELSE IF dataPayload = <<>>
            THEN [kind |-> "event", event |-> scan.event, done |-> FALSE, data |-> {}]
     ELSE IF dataPayload = <<DoneLiteral>>
            THEN [kind |-> "event", event |-> scan.event, done |-> TRUE, data |-> {}]
     ELSE IF JSONParsePayload(dataPayload) = {} THEN NullEvent
     ELSE [kind |-> "event", event |-> scan.event, done |-> FALSE,
           data |-> JSONParsePayload(dataPayload)]

EventName(parsed) ==
  IF Len(parsed.event) = 1 /\ "c" \in DOMAIN parsed.event[1]
    THEN parsed.event[1].c ELSE "?"

(***************************************************************************)
(* Tool-argument JSON.  The text of a tool input is a sequence of          *)
(* characters: the braces, one member ("G": "code" is a script that runs,  *)
(* "R": a script that throws when run, "S": a script that does not         *)
(* compile, "N": "code" is a number), the literal null, and two blanks:    *)
(* " " is JSON whitespace, "nbsp" (U+00A0) is whitespace for               *)
(* String.prototype.trim() but not for JSON.parse.                         *)
(***************************************************************************)
Members == {"G", "R", "S", "N"}
JsonChars == {"{", "}", "null", " ", "nbsp"} \cup Members
TrimWhitespace == {" ", "nbsp"}
JsonWhitespace == {" "}

EmptyObject == [kind |-> "object", members |-> {}]
JsonNull == [kind |-> "null", members |-> {}]

\* JSON.parse of a tool-input text: {} when it throws, {v} when it yields v.
JSONParseInput(text) ==
  LET toks == SeqFilter(text, JsonChars \ JsonWhitespace)
  IN IF toks = <<"{", "}">> THEN {EmptyObject}
     ELSE IF Len(toks) = 3 /\ toks[1] = "{" /\ toks[2] \in Members /\ toks[3] = "}"
            THEN {[kind |-> "object", members |-> {toks[2]}]}
     ELSE IF toks = <<"null">> THEN {JsonNull}
     ELSE {}

TrimInput(s) == TrimRight(TrimLeft(s, TrimWhitespace), TrimWhitespace)

(***************************************************************************)
(* The assistant message under construction.  content is a JavaScript     *)
(* array: assigning at an index past the end leaves holes.                 *)
(***************************************************************************)
Hole == [type |-> "hole"]

RECURSIVE Holes(_)
Holes(n) == IF n <= 0 THEN <<>> ELSE <<Hole>> \o Holes(n - 1)

\* content[index] = block
ContentSet(content, index, block) ==
  IF index + 1 <= Len(content)
    THEN [content EXCEPT ![index + 1] = block]
    ELSE content \o Holes(index - Len(content)) \o <<block>>

\* content[index], Hole standing for undefined
ContentGet(content, index) ==
  IF index + 1 <= Len(content) THEN content[index + 1] ELSE Hole

(***************************************************************************)
(* streamClaudeTurn.  The state of one turn:                               *)
(*   buffer    the undecoded text,                                         *)
(*   content   assistantMessage.content,                                   *)
(*   pending   pendingToolInputs, a map from index to [id, name, buffer],  *)
(*   toolCalls the list returned with the message,                         *)
(*   out       what emitText / emitEvent were called with, in order,       *)
(*   uuid      how many ids crypto.randomUUID() has produced,              *)
(*   decoded   (history) the events parseEvent handed to the switch.       *)
(***************************************************************************)
NewTurn(uuid) ==
  [buffer |-> <<>>, content |-> <<>>, pending |-> <<>>, toolCalls |-> <<>>,
   out |-> <<>>, uuid |-> uuid, decoded |-> <<>>]

RandomUUID(n) == "uuid-" \o ToString(n)

\* Mutant: the delta is put in front of the text.
AppendText_InFront(old, text) == text \o old

\* block.text += text
AppendText(old, text) == old \o text

\* Mutant: the fragment replaces the buffer (= for +=).
AppendPartial_Overwrites(buffer, partial) == partial

\* pending.buffer += partial
AppendPartial(buffer, partial) == buffer \o partial

\* Mutant: a tool-use block is started without the tool-request event.
OnContentBlockStart_NoToolRequest(st, payload) ==
  IF ~("index" \in DOMAIN payload /\ "content_block" \in DOMAIN payload) THEN st
  ELSE LET index == payload.index
           cb == payload.content_block
       IN IF "type" \in DOMAIN cb /\ cb.type = "text"
            THEN [st EXCEPT !.content =
                    ContentSet(@, index, [type |-> "text", text |-> <<>>])]
          ELSE IF "type" \in DOMAIN cb /\ cb.type = "tool_use"
            THEN LET fresh == ~("id" \in DOMAIN cb)
                     id == IF fresh THEN RandomUUID(st.uuid + 1) ELSE cb.id
                     name == IF "name" \in DOMAIN cb THEN cb.name ELSE ""
                 IN [st EXCEPT
                       !.content = ContentSet(@, index,
                          [type |-> "tool_use", id |-> id, name |-> name,
                           input |-> EmptyObject]),
                       !.pending = [j \in (DOMAIN @) \cup {index} |->
                          IF j = index THEN [id |-> id, name |-> name, buffer |-> <<>>]
                          ELSE @[j]],
                       !.uuid = IF fresh THEN @ + 1 ELSE @]
          ELSE st

\* case "content_block_start"
OnContentBlockStart(st, payload) ==
  IF ~("index" \in DOMAIN payload /\ "content_block" \in DOMAIN payload) THEN st
  ELSE LET index == payload.index
           cb == payload.content_block
       IN IF "type" \in DOMAIN cb /\ cb.type = "text"
            THEN [st EXCEPT !.content =
                    ContentSet(@, index, [type |-> "text", text |-> <<>>])]
          ELSE IF "type" \in DOMAIN cb /\ cb.type = "tool_use"
            THEN LET fresh == ~("id" \in DOMAIN cb)
                     id == IF fresh THEN RandomUUID(st.uuid + 1) ELSE cb.id
                     name == IF "name" \in DOMAIN cb THEN cb.name ELSE ""
                 IN [st EXCEPT
                       !.content = ContentSet(@, index,
                          [type |-> "tool_use", id |-> id, name |-> name,
                           input |-> EmptyObject]),
                       !.pending = [j \in (DOMAIN @) \cup {index} |->
                          IF j = index THEN [id |-> id, name |-> name, buffer |-> <<>>]
                          ELSE @[j]],
                       !.out = Append(@, [fn |-> "emitEvent", event |->
                          [type |-> "tool-request", id |-> id, name |-> name]]),
                       !.uuid = IF fresh THEN @ + 1 ELSE @]
          ELSE st

\* case "content_block_delta"
OnContentBlockDelta(st, payload) ==
  IF ~("index" \in DOMAIN payload /\ "delta" \in DOMAIN payload) THEN st
  ELSE LET index == payload.index
           delta == payload.delta
       IN IF "type" \in DOMAIN delta /\ delta.type = "text_delta"
            THEN LET text == IF "text" \in DOMAIN delta THEN delta.text ELSE <<>>
                     block == ContentGet(st.content, index)
                     appended == IF block.type = "text"
                                   THEN [st EXCEPT !.content[index + 1].text =
                                           AppendText(@, text)]
                                   ELSE st
                 IN IF text # <<>>
                      THEN [appended EXCEPT !.out =
                              Append(@, [fn |-> "emitText", text |-> text])]
                      ELSE appended
          ELSE IF "type" \in DOMAIN delta /\ delta.type = "input_json_delta"
            THEN LET partial == IF "partial_json" \in DOMAIN delta
                                  THEN delta.partial_json ELSE <<>>
                 IN IF index \in DOMAIN st.pending
                      THEN [st EXCEPT !.pending[index].buffer = AppendPartial(@, partial)]
                      ELSE st
          ELSE st

\* case "content_block_stop"
OnContentBlockStop(st, payload) ==
  IF ~("index" \in DOMAIN payload) THEN st
  ELSE LET index == payload.index
       IN IF index \notin DOMAIN st.pending THEN st
          ELSE LET pending == st.pending[index]
                   inputBuffer == TrimInput(pending.buffer)
                   parsed == IF inputBuffer = <<>> THEN {} ELSE JSONParseInput(inputBuffer)
                   input == IF parsed = {} THEN EmptyObject ELSE CHOOSE v \in parsed : TRUE
                   block == ContentGet(st.content, index)
                   removed == [st EXCEPT !.pending =
                                 [j \in (DOMAIN @) \ {index} |-> @[j]]]
               IN IF block.type = "tool_use"
                    THEN [removed EXCEPT
                            !.content[index + 1].input = input,
                            !.toolCalls = Append(@, [id |-> block.id, name |-> block.name,
                                                     input |-> input, index |-> index])]
                    ELSE removed

\* Mutant: message_stop is treated as any other event and the loop goes on.
ApplyEvent_MessageStopGoesOn(st, parsed) ==
  LET payload == IF parsed.data = {} THEN [none |-> TRUE]
                 ELSE CHOOSE d \in parsed.data : TRUE
      name == EventName(parsed)
  IN IF parsed.done THEN [st |-> st, ctl |-> "return"]
     ELSE IF name = "content_block_start"
       THEN [st |-> OnContentBlockStart(st, payload), ctl |-> "continue"]
     ELSE IF name = "content_block_delta"
       THEN [st |-> OnContentBlockDelta(st, payload), ctl |-> "continue"]
     ELSE IF name = "content_block_stop"
       THEN [st |-> OnContentBlockStop(st, payload), ctl |-> "continue"]
     ELSE IF name = "error" THEN [st |-> st, ctl |-> "throw"]
     ELSE [st |-> st, ctl |-> "continue"]

\* The body of processBuffer's loop for one decoded event: the state after it
\* and how the loop goes on ("continue", "return" for return true, "throw").
ApplyEvent(st, parsed) ==
  LET payload == IF parsed.data = {} THEN [none |-> TRUE]
                 ELSE CHOOSE d \in parsed.data : TRUE
      name == EventName(parsed)
  IN IF parsed.done THEN [st |-> st, ctl |-> "return"]
     ELSE IF name = "content_block_start"
       THEN [st |-> OnContentBlockStart(st, payload), ctl |-> "continue"]
     ELSE IF name = "content_block_delta"
       THEN [st |-> OnContentBlockDelta(st, payload), ctl |-> "continue"]
     ELSE IF name = "content_block_stop"
       THEN [st |-> OnContentBlockStop(st, payload), ctl |-> "continue"]
     ELSE IF name = "message_stop" THEN [st |-> st, ctl |-> "return"]
     ELSE IF name = "error" THEN [st |-> st, ctl |-> "throw"]
     ELSE [st |-> st, ctl |-> "continue"]

\* processBuffer: decode and apply every complete frame of the buffer.
\* ctl is "more" for return false, "return" for return true, "throw".
RECURSIVE processBuffer(_)
processBuffer(st) ==
  LET eventBoundary == IndexOfBlankLine(st.buffer, 1)
  IN IF eventBoundary = 0 THEN [st |-> st, ctl |-> "more"]
     ELSE LET rawEvent == SubSeq(st.buffer, 1, eventBoundary - 1)
              rest == [st EXCEPT !.buffer =
                         SubSeq(@, eventBoundary + 2, Len(@))]
              parsed == parseEvent(rawEvent)
          IN IF parsed = NullEvent THEN processBuffer(rest)
             ELSE LET r == ApplyEvent([rest EXCEPT !.decoded = Append(@, parsed)],
                                      parsed)
                  IN IF r.ctl = "continue" THEN processBuffer(r.st) ELSE r

\* Mutant: the chunk replaces the buffer (= for +=).
OnChunk_DropsBuffer(st, chunk) == processBuffer([st EXCEPT !.buffer = chunk])

\* One iteration of the read loop: a chunk arrived.
OnChunk(st, chunk) == processBuffer([st EXCEPT !.buffer = @ \o chunk])

\* Mutant: at the end of the body what is left in the buffer is decoded as a
\* last frame.
OnEndOfStream_FlushesBuffer(st) ==
  LET r == processBuffer([st EXCEPT !.buffer = @ \o <<NL, NL>>])
  IN IF r.ctl = "throw" THEN r ELSE [st |-> r.st, ctl |-> "return"]

\* The read loop at end of stream: whatever processBuffer answers, the turn
\* returns what it has built (unless processBuffer throws).
OnEndOfStream(st) ==
  LET r == processBuffer(st)
  IN IF r.ctl = "throw" THEN r ELSE [st |-> r.st, ctl |-> "return"]

(***************************************************************************)
(* Tools as the loop sees them: runTool either resolves with a result or   *)
(* rejects.                                                                *)
(***************************************************************************)
Resolved(v) == [settled |-> "resolved", value |-> v]
Rejected(m) == [settled |-> "rejected", message |-> m]

ToolOk(result, trace) ==
  [ok |-> TRUE, result |-> result, logs |-> <<>>, trace |-> trace]
ToolError(message, trace) ==
  [ok |-> FALSE, message |-> message, trace |-> trace]

\* runJavaScript(code): the script is compiled outside the try block, run
\* inside it.
runJavaScript(code) ==
  IF code = "S" THEN Rejected("SyntaxError")
  ELSE IF code = "R"
    THEN Resolved(ToolError("script error",
           <<"Initialize sandbox", "Compile script", "Execute snippet", "Execution error">>))
  ELSE Resolved(ToolOk("script value",
           <<"Initialize sandbox", "Compile script", "Execute snippet", "Serialize result">>))

\* The names of the registered tools.
RegisteredTools ==
  {"run_javascript", "list_capabilities", "explain_guardrails", "kb_lookup",
   "todo_manager"}

\* Mutant: a tool that is not registered makes runTool throw.
runTool_UnknownToolThrows(toolName, input) ==
  IF toolName = "run_javascript"
    THEN IF input.kind = "null" THEN Rejected("TypeError")
         ELSE IF input.members \cap {"G", "R", "S"} = {}
           THEN Resolved(ToolError("Expected code to be a string.", <<"Validate input">>))
         ELSE runJavaScript(CHOOSE m \in input.members : m \in {"G", "R", "S"})
  ELSE Rejected("Unknown tool: " \o toolName)

\* runTool.  The inputs of this model carry no query and no action, so
\* kb_lookup and todo_manager answer with their validation failure (and throw
\* on an input that is null).
runTool(toolName, input) ==
  IF toolName = "run_javascript"
    THEN IF input.kind = "null" THEN Rejected("TypeError")
         ELSE IF input.members \cap {"G", "R", "S"} = {}
           THEN Resolved(ToolError("Expected code to be a string.", <<"Validate input">>))
         ELSE runJavaScript(CHOOSE m \in input.members : m \in {"G", "R", "S"})
  ELSE IF toolName = "list_capabilities"
    THEN Resolved(ToolOk("capabilities", <<"Describe sandbox">>))
  ELSE IF toolName = "explain_guardrails"
    THEN Resolved(ToolOk("guardrails", <<"Summarize safety">>))
  ELSE IF toolName = "kb_lookup"
    THEN IF input.kind = "null" THEN Rejected("TypeError")
         ELSE Resolved(ToolError("Expected query to be a non-empty string.",
                                 <<"Validate payload">>))
  ELSE IF toolName = "todo_manager"
    THEN IF input.kind = "null" THEN Rejected("TypeError")
         ELSE Resolved(ToolError("Expected action to be a string.",
                                 <<"Validate payload">>))
  ELSE Resolved(ToolError("Unknown tool: " \o toolName, <<"Lookup tool">>))

\* renderToolResult: the fields that are serialized into the tool message.
renderToolResult(result) ==
  IF result.ok
    THEN [ok |-> TRUE, result |-> result.result, logs |-> result.logs,
          trace |-> result.trace]
    ELSE [ok |-> FALSE, message |-> result.message, trace |-> result.trace]

(***************************************************************************)
(* JSON.stringify of messages: a hole of a content array is written null.  *)
(***************************************************************************)
NullBlock == [type |-> "null"]

StringifyMessage(m) ==
  [role |-> m.role,
   content |-> [i \in 1..Len(m.content) |->
                  IF m.content[i] = Hole THEN NullBlock ELSE m.content[i]]]

StringifyMessages(ms) == [i \in 1..Len(ms) |-> StringifyMessage(ms[i])]

(***************************************************************************)
(* Outbound events.                                                        *)
(***************************************************************************)
MessageEvent(m) == [type |-> "message", message |-> StringifyMessage(m)]
ToolCallEvent(call) ==
  [type |-> "tool-call", id |-> call.id, name |-> call.name, input |-> call.input]
ToolResultEvent(call, result) ==
  [type |-> "tool-result", id |-> call.id, ok |-> result.ok, payload |-> result]
SessionEvent(id, ms) ==
  [type |-> "session", session |-> [id |-> id, messages |-> StringifyMessages(ms)]]
ErrorEvent(message) == [type |-> "error", message |-> message]
DoneEvent == [type |-> "done"]

\* The two callbacks createAgentResponse hands to streamClaudeTurn, applied to
\* the calls the turn made: the events that are sent for them.
RECURSIVE TurnCallbacks(_)
TurnCallbacks(out) ==
  IF out = <<>> THEN <<>>
  ELSE LET o == Head(out)
           sent == IF o.fn = "emitText"
                     THEN IF o.text # <<>>
                            THEN <<[type |-> "assistant-delta", text |-> o.text]>>
                            ELSE <<>>
                     ELSE IF o.event.type # "assistant-delta" THEN <<o.event>> ELSE <<>>
       IN sent \o TurnCallbacks(Tail(out))

\* An error frame whose payload is no JSON.
MalformedErrorFrame ==
  <<EventPrefix, SP, Lit("error"), NL, DataPrefix, SP, Lit("{oops"), NL, NL>>

(***************************************************************************)
(* The outbound ReadableStream and its reader.  A stream is                *)
(*   state          "none" (no stream yet), "readable", "closed", "errored",*)
(*   queue          the chunks enqueued and not yet read,                  *)
(*   closeRequested controller.close() was called with chunks still queued,*)
(*   readPending    the reader asked for a chunk while the queue was empty,*)
(*   received       the chunks the reader's reads resolved with, in order, *)
(*   reader         how the reader's reads ended: "open", "done" (end of   *)
(*                  the stream), "rejected" (the stream is errored),       *)
(*                  "cancelled" (the reader cancelled the stream).         *)
(***************************************************************************)
NoStream ==
  [state |-> "none", queue |-> <<>>, closeRequested |-> FALSE,
   readPending |-> FALSE, received |-> <<>>, reader |-> "open"]

\* new ReadableStream({ start(controller) { ... } })
NewStream == [NoStream EXCEPT !.state = "readable"]

\* Mutant: sendEvent swallows the TypeError of a closed stream.
EnqueueThrows_Never(s) == FALSE

\* controller.enqueue throws a TypeError unless the stream is readable and
\* close has not been requested; so does controller.close.
EnqueueThrows(s) == ~(s.state = "readable" /\ ~s.closeRequested)

\* controller.enqueue(chunk) on a stream that takes it: a pending read is
\* resolved with the chunk, otherwise the chunk is queued.
ControllerEnqueue(s, chunk) ==
  IF s.readPending
    THEN [s EXCEPT !.readPending = FALSE, !.received = Append(@, chunk)]
    ELSE [s EXCEPT !.queue = Append(@, chunk)]

RECURSIVE EnqueueAll(_, _)
EnqueueAll(s, chunks) ==
  IF chunks = <<>> THEN s
  ELSE EnqueueAll(ControllerEnqueue(s, Head(chunks)), Tail(chunks))

\* controller.error(e): the queue is reset and the stream is errored; a
\* pending read is rejected.
ControllerError(s) ==
  IF s.state # "readable" THEN s
  ELSE [s EXCEPT !.queue = <<>>, !.state = "errored", !.readPending = FALSE,
                 !.reader = IF s.readPending THEN "rejected" ELSE @]

\* controller.close(): throws where enqueue throws (the stream is left as it
\* is); otherwise the stream closes once the queue has been read.
ControllerClose(s) ==
  IF EnqueueThrows(s) THEN s
  ELSE IF s.queue # <<>> THEN [s EXCEPT !.closeRequested = TRUE]
  ELSE [s EXCEPT !.state = "closed", !.readPending = FALSE,
                 !.reader = IF s.readPending THEN "done" ELSE @]

\* reader.read()
ReaderRead(s) ==
  IF s.state = "errored" THEN [s EXCEPT !.reader = "rejected"]
  ELSE IF s.state = "closed" THEN [s EXCEPT !.reader = "done"]
  ELSE IF s.queue # <<>>
    THEN [s EXCEPT !.received = Append(@, Head(s.queue)),
                   !.queue = Tail(@),
                   !.state = IF s.closeRequested /\ Tail(s.queue) = <<>>
                               THEN "closed" ELSE @]
  ELSE [s EXCEPT !.readPending = TRUE]

\* reader.cancel(): the queue is reset and the stream is closed.
ReaderCancel(s) ==
  [s EXCEPT !.queue = <<>>, !.state = "closed", !.readPending = FALSE,
            !.reader = "cancelled"]

(***************************************************************************)
(* Wire frames the model endpoint can send.                                *)
(***************************************************************************)
Frame(name, doc) ==
  <<EventPrefix, SP, Lit(name), NL, DataPrefix, SP, Js(doc), NL, NL>>

StartText(i) ==
  Frame("content_block_start", [index |-> i, content_block |-> [type |-> "text"]])
StartTool(i, id, name) ==
  Frame("content_block_start",
        [index |-> i, content_block |-> [type |-> "tool_use", id |-> id, name |-> name]])
TextDelta(i, text) ==
  Frame("content_block_delta",
        [index |-> i, delta |-> [type |-> "text_delta", text |-> text]])
InputJsonDelta(i, partial) ==
  Frame("content_block_delta",
        [index |-> i, delta |-> [type |-> "input_json_delta", partial_json |-> partial]])
BlockStop(i) == Frame("content_block_stop", [index |-> i])
MessageStop == Frame("message_stop", [type |-> "message_stop"])
ErrorFrame == Frame("error", [type |-> "error"])
DoneFrame == <<DataPrefix, SP, DoneLiteral, NL, NL>>
\* A frame whose payload is no JSON.
MalformedFrame ==
  <<EventPrefix, SP, Lit("content_block_delta"), NL, DataPrefix, SP, Lit("{oops"), NL, NL>>

(***************************************************************************)
(* State.                                                                  *)
(*   createAgentResponse: pc, apiKey, session, prompt, sessionId,          *)
(*     conversation, events (what sendEvent enqueued, in order), turn,     *)
(*     callIndex (the call of the for loop that is running), uuid;         *)
(*   the caller: lastSession (the session of the last session event),      *)
(*     chained (the running exchange was given lastSession);               *)
(*   history variables: history (model requests, returned turns, runTool   *)
(*     invocations and appended tool messages of the invocation),          *)
(*     finalConversation (the conversation when lastSession was emitted),  *)
(*     priorConversation (the final conversation of the exchange whose     *)
(*     session the running exchange was given, <<>> if it was given none), *)
(*     requests, reads, exchanges (counters that bound the model);         *)
(*   one turn on its own: transcript, pos, tctl, delivered;                *)
(*   the outbound stream and its reader: stream;                           *)
(*   the tool host: todos (the todo list of the todo_manager tool), and,   *)
(*     for the last request to the execute route, response and invoked     *)
(*     (the runTool invocation it made, if any);                           *)
(*   the StreamData variant of createAgentResponse (lib/agent.ts): sd, a   *)
(*     record of its pc, sessionId, conversation, turn, callIndex, uuid,   *)
(*     history, data (what data.append was called with, in order),         *)
(*     dataClosed (data.close() was called) and text (the text stream);    *)
(*   exchanges side by side: exch, for each of them the place its loop is  *)
(*     at, the tool calls of its turn and the calls it has run;            *)
(*   the agent route: reply, its answer to the last request;               *)
(*   the client component: ui, the state of AgentDemo (messages, timeline, *)
(*     session, assistantDraft, isStreaming, error) and the place          *)
(*     streamAgentResponse is at.                                          *)
(***************************************************************************)
VARIABLES pc, apiKey, session, prompt, sessionId, conversation, events, turn,
          callIndex, uuid, lastSession, chained, history, finalConversation,
          priorConversation, requests, reads, exchanges, transcript, pos, tctl,
          delivered, stream, todos, response, invoked, sd, exch, reply, ui

vars == <<pc, apiKey, session, prompt, sessionId, conversation, events, turn,
          callIndex, uuid, lastSession, chained, history, finalConversation,
          priorConversation, requests, reads, exchanges, transcript, pos, tctl,
          delivered, stream, todos, response, invoked, sd, exch, reply, ui>>

invocationvars ==
  <<pc, apiKey, session, prompt, sessionId, conversation, events, callIndex, uuid,
    lastSession, chained, history, finalConversation, priorConversation, requests,
    exchanges>>

loopvars == <<invocationvars, stream>>

turnvars == <<transcript, pos, tctl, delivered>>

routevars == <<todos, response, invoked>>

sidevars == <<exch, reply, ui>>

NoSession == [given |-> FALSE, id |-> "", messages |-> <<>>]

TextMessage(role, text) ==
  [role |-> role, content |-> <<[type |-> "text", text |-> text]>>]

\* Mutant: a new id is generated whether or not a session is given.
SessionIdFor_AlwaysFresh(sess, n) == RandomUUID(n + 1)

\* const sessionId = session?.id ?? crypto.randomUUID(), n ids having been
\* generated before.
SessionIdFor(sess, n) == IF sess.given THEN sess.id ELSE RandomUUID(n + 1)

\* Mutant: the messages of the given session are not taken over.
InitialConversation_IgnoresSession(sess, userMessage) == <<userMessage>>

\* const conversation = [...(session?.messages ?? [])]; conversation.push(userMessage)
InitialConversation(sess, userMessage) == sess.messages \o <<userMessage>>

\* Mutant: the message is put in front (unshift for push).
ConversationPush_Unshift(conv, message) == <<message>> \o conv

\* conversation.push(message)
ConversationPush(conv, message) == Append(conv, message)

\* Mutant: the tool message is sent before the tool result.
ToolSettledEvents_MessageFirst(call, result, toolMessage) ==
  <<MessageEvent(toolMessage), ToolResultEvent(call, result)>>

\* The two events sent for a settled tool call.
ToolSettledEvents(call, result, toolMessage) ==
  <<ToolResultEvent(call, result), MessageEvent(toolMessage)>>

\* Mutant: done is sent before the session.
FinalEvents_DoneFirst(id, conv) == <<DoneEvent, SessionEvent(id, conv)>>

\* The two events sent after the loop.
FinalEvents(id, conv) == <<SessionEvent(id, conv), DoneEvent>>

Prompts == {<<"p">>, <<"q">>}

\* What one read of the response body can deliver in the loop's model.
LoopChunks ==
  {StartText(0), TextDelta(0, <<"a">>),
   StartTool(0, "tu1", "run_javascript"),
   InputJsonDelta(0, <<"{", "G", "}">>), InputJsonDelta(0, <<"{", "S", "}">>),
   BlockStop(0),
   StartTool(1, "tu2", "delete_everything") \o BlockStop(1),
   MessageStop, ErrorFrame}

FetchOutcomes == {"ok", "no_body", "http_error", "network_error"}

FetchFailure(outcome) ==
  IF outcome = "no_body" THEN "Claude API did not return a response body"
  ELSE IF outcome = "http_error" THEN "Claude API error: 500"
  ELSE "fetch failed"

MissingKey == "Missing ANTHROPIC_API_KEY environment variable."

\* Mutant: the headers are built whether or not the key is set.
getAnthropicHeaders_NoCheck(key) == [thrown |-> FALSE]

\* getAnthropicHeaders: throws when the key is not set.
getAnthropicHeaders(key) ==
  IF key THEN [thrown |-> FALSE] ELSE [thrown |-> TRUE, message |-> MissingKey]

\* No invocation of createAgentResponse is under way.
LoopIdle ==
  /\ pc = "idle"
  /\ session = NoSession
  /\ prompt = <<>>
  /\ sessionId = ""
  /\ conversation = <<>>
  /\ events = <<>>
  /\ callIndex = 0
  /\ uuid = 0
  /\ lastSession = NoSession
  /\ chained = FALSE
  /\ history = <<>>
  /\ finalConversation = <<>>
  /\ priorConversation = <<>>
  /\ requests = 0
  /\ exchanges = 0
  /\ stream = NoStream

\* The todo list as the module is loaded.
InitialTodos ==
  <<[id |-> "todo-001", title |-> <<"Review sandbox telemetry hooks">>,
     status |-> "pending", tags |-> <<[type |-> "string", chars |-> <<"observability">>]>>],
    [id |-> "todo-002", title |-> <<"Draft MCP onboarding guide">>,
     status |-> "pending",
     tags |-> <<[type |-> "string", chars |-> <<"documentation">>],
                [type |-> "string", chars |-> <<"mcp">>]>>],
    [id |-> "todo-003", title |-> <<"QA dry-run workflow">>,
     status |-> "completed", tags |-> <<[type |-> "string", chars |-> <<"testing">>]>>]>>

NoResponse == [status |-> 0]
NoCall == [op |-> "none"]

\* The tool host has served no request.
RouteIdle ==
  /\ todos = InitialTodos
  /\ response = NoResponse
  /\ invoked = NoCall

\* The StreamData variant before its first invocation.
NoSd ==
  [pc |-> "idle", sessionId |-> "", conversation |-> <<>>, data |-> <<>>,
   dataClosed |-> FALSE, text |-> NoStream, turn |-> NewTurn(0), callIndex |-> 0,
   uuid |-> 0, history |-> <<>>]

\* The exchanges that run side by side in one process.
Exchanges == {"e1", "e2"}

NoReply == [status |-> 0]

\* The component as it is mounted: the useState initial values.
NoBody == [prompt |-> <<>>, session |-> NoSession]

\* The component as it is mounted: the useState initial values (a null
\* session is NoSession, a null error the empty sequence), with the place
\* streamAgentResponse is at (pc, the body it sent, the number of events of
\* the response it has handled) and the number of earlier calls whose last
\* read is still to reject.
MountedUi ==
  [messages |-> <<>>, timeline |-> <<>>, session |-> NoSession,
   assistantDraft |-> <<>>, isStreaming |-> FALSE, error |-> <<>>,
   pc |-> "idle", body |-> NoBody, handled |-> 0, staleRejects |-> 0]

\* No exchange runs side by side, the agent route has answered no request
\* and the component has just been mounted.
SideIdle ==
  /\ exch = [e \in Exchanges |-> [pc |-> "idle", calls |-> <<>>, log |-> <<>>]]
  /\ reply = NoReply
  /\ ui = MountedUi

Init ==
  /\ LoopIdle
  /\ RouteIdle
  /\ sd = NoSd
  /\ SideIdle
  /\ apiKey \in BOOLEAN
  /\ turn = NewTurn(0)
  /\ reads = 0
  /\ transcript = <<>>
  /\ pos = 0
  /\ tctl = "idle"
  /\ delivered = <<>>

\* Mutant: done is sent on the failure path as well (as from a finally block).
Fail_ThenDone(sent, message) ==
  /\ events' = sent \o <<ErrorEvent(message), DoneEvent>>
  /\ pc' = "failed"

\* Mutant: the conversation reached so far is sent as a session before the
\* error event.
Fail_PartialSession(sent, message) ==
  /\ events' = sent \o <<SessionEvent(sessionId, conversation), ErrorEvent(message)>>
  /\ pc' = "failed"

\* catch: one error event; the stream is errored and nothing more is sent.
Fail(sent, message) ==
  /\ events' = Append(sent, ErrorEvent(message))
  /\ pc' = "failed"

\* The stream after the sendEvent calls of a step that enqueued added, then
\* controller.error in catch when the step failed, then controller.close in
\* finally when the invocation ended.
Outbound(s, added, pcNew) ==
  LET enqueued == EnqueueAll(s, added)
  IN IF pcNew = "failed" THEN ControllerClose(ControllerError(enqueued))
     ELSE IF pcNew = "done" THEN ControllerClose(enqueued)
     ELSE enqueued

\* The events a step has sent.
Added == SubSeq(events', Len(events) + 1, Len(events'))

\* sendEvent throws because the stream takes no chunk any more: the catch
\* block's sendEvent throws as well, controller.error is not reached, and
\* controller.close in finally throws; start() ends with that exception.
Abort ==
  /\ pc' = "aborted"
  /\ events' = events
  /\ stream' = stream

RequestOp(conv) == [op |-> "request", len |-> Len(conv)]
RunToolOp(call) == [op |-> "runTool", id |-> call.id, name |-> call.name]

\* Mutant: the tool invocations of a turn are all started before the first is
\* awaited (as with Promise.all).
StartCall_AllAtOnce(calls, i) ==
  IF i = 1 THEN [k \in 1..Len(calls) |-> RunToolOp(calls[k])] ELSE <<>>

\* The for loop reaches call i: runTool is invoked for it and awaited.
StartCall(calls, i) == <<RunToolOp(calls[i])>>

\* createAgentResponse up to its first await: the session id and the
\* conversation are set up, the user message is sent, the first model request
\* is issued (getAnthropicHeaders throws when the key is missing).
CreateAgentResponse(p, sess) ==
  /\ pc \in {"idle", "done", "failed", "aborted"}
  /\ exchanges < MaxExchanges
  /\ LET userMessage == TextMessage("user", p)
         conv == InitialConversation(sess, userMessage)
         sent == <<MessageEvent(userMessage)>>
     IN /\ session' = sess
        /\ prompt' = p
        /\ sessionId' = SessionIdFor(sess, uuid)
        /\ uuid' = IF sess.given THEN uuid ELSE uuid + 1
        /\ conversation' = conv
        /\ chained' = (sess.given /\ sess = lastSession)
        /\ priorConversation' = IF chained' THEN finalConversation ELSE <<>>
        /\ exchanges' = exchanges + 1
        /\ callIndex' = 0
        /\ turn' = NewTurn(uuid')
        /\ IF ~getAnthropicHeaders(apiKey).thrown
             THEN /\ events' = sent
                  /\ pc' = "fetch"
                  /\ history' = <<RequestOp(conv)>>
                  /\ requests' = 1
             ELSE /\ Fail(sent, getAnthropicHeaders(apiKey).message)
                  /\ history' = <<>>
                  /\ requests' = 0
        /\ stream' = Outbound(NewStream, events', pc')
  /\ UNCHANGED <<apiKey, lastSession, finalConversation, reads, turnvars, routevars>>

\* await fetch(...) settles; the checks on response.body and response.ok.
FetchSettles(outcome) ==
  /\ pc = "fetch"
  /\ IF outcome = "ok"
       THEN pc' = "read" /\ events' = events /\ stream' = stream
       ELSE IF EnqueueThrows(stream) THEN Abort
       ELSE /\ Fail(events, FetchFailure(outcome))
            /\ stream' = Outbound(stream, Added, pc')
  /\ UNCHANGED <<apiKey, session, prompt, sessionId, conversation, turn, callIndex,
                 uuid, lastSession, chained, history, finalConversation,
                 priorConversation, requests, reads, exchanges, turnvars, routevars>>

\* Mutant: the loop is left after every turn, with or without tool calls.
LoopBreaks_AfterEveryTurn(toolCalls) == TRUE

\* if (toolCalls.length === 0) break
LoopBreaks(toolCalls) == toolCalls = <<>>

\* streamClaudeTurn returned st: the assistant message is appended and sent;
\* without tool calls the session and done events follow, otherwise the for
\* loop starts on the first call.
TurnReturns(st, sent) ==
  LET assistantMessage == [role |-> "assistant", content |-> st.content]
      conv == ConversationPush(conversation, assistantMessage)
      sent2 == Append(sent, MessageEvent(assistantMessage))
      hist == Append(history, [op |-> "turn", calls |-> st.toolCalls,
                               len |-> Len(conv)])
  IN /\ conversation' = conv
     /\ turn' = st
     /\ uuid' = st.uuid
     /\ IF LoopBreaks(st.toolCalls)
          THEN /\ events' = sent2 \o FinalEvents(sessionId, conv)
               /\ pc' = "done"
               /\ callIndex' = 0
               /\ history' = hist
               /\ lastSession' = [given |-> TRUE, id |-> sessionId,
                                  messages |-> StringifyMessages(conv)]
               /\ finalConversation' = conv
          ELSE /\ events' = Append(sent2, ToolCallEvent(st.toolCalls[1]))
               /\ pc' = "tool"
               /\ callIndex' = 1
               /\ history' = hist \o StartCall(st.toolCalls, 1)
               /\ UNCHANGED <<lastSession, finalConversation>>

\* What a step of the read loop leads to.
AfterRead(r) ==
  LET new == TurnCallbacks(r.st.out)
      sent == events \o new
  IN IF EnqueueThrows(stream) /\ (new # <<>> \/ r.ctl # "more")
       THEN /\ Abort
            /\ turn' = r.st
            /\ conversation' =
                 IF new = <<>> /\ r.ctl = "return"
                   THEN ConversationPush(conversation,
                          [role |-> "assistant", content |-> r.st.content])
                   ELSE conversation
            /\ UNCHANGED <<callIndex, uuid, lastSession, history, finalConversation>>
     ELSE /\ IF r.ctl = "more"
               THEN /\ turn' = r.st
                    /\ events' = sent
                    /\ UNCHANGED <<pc, conversation, callIndex, uuid, lastSession,
                                   history, finalConversation>>
             ELSE IF r.ctl = "return" THEN TurnReturns(r.st, sent)
             ELSE /\ Fail(sent, "Claude streaming error")
                  /\ turn' = r.st
                  /\ UNCHANGED <<conversation, callIndex, uuid, lastSession, history,
                                 finalConversation>>
          /\ stream' = Outbound(stream, Added, pc')

\* reader.read() delivers a chunk.
Read(chunk) ==
  /\ pc = "read"
  /\ reads < MaxReads
  /\ reads' = reads + 1
  /\ AfterRead(OnChunk([turn EXCEPT !.out = <<>>], chunk))
  /\ UNCHANGED <<apiKey, session, prompt, sessionId, chained, priorConversation,
                 requests, exchanges, turnvars, routevars>>

\* reader.read() reports the end of the body.
ReadDone ==
  /\ pc = "read"
  /\ AfterRead(OnEndOfStream([turn EXCEPT !.out = <<>>]))
  /\ UNCHANGED <<apiKey, session, prompt, sessionId, chained, priorConversation,
                 requests, reads, exchanges, turnvars, routevars>>

\* await runTool(...) settles for the call the for loop is at.
ToolSettles ==
  /\ pc = "tool"
  /\ LET call == turn.toolCalls[callIndex]
         r == runTool(call.name, call.input)
     IN IF EnqueueThrows(stream)
          THEN /\ Abort
               /\ UNCHANGED <<conversation, turn, callIndex, history, requests>>
        ELSE IF r.settled = "rejected"
          THEN /\ Fail(events, r.message)
               /\ stream' = Outbound(stream, Added, pc')
               /\ UNCHANGED <<conversation, turn, callIndex, history, requests>>
          ELSE LET result == r.value
                   toolMessage ==
                     [role |-> "tool",
                      content |-> <<[type |-> "tool_result", tool_use_id |-> call.id,
                                     content |-> renderToolResult(result)]>>]
                   sent == events \o ToolSettledEvents(call, result, toolMessage)
                   conv == ConversationPush(conversation, toolMessage)
                   hist == Append(history, [op |-> "toolMessage", id |-> call.id])
               IN /\ conversation' = conv
                  /\ IF callIndex < Len(turn.toolCalls)
                       THEN /\ events' = Append(sent,
                                           ToolCallEvent(turn.toolCalls[callIndex + 1]))
                            /\ history' = hist \o StartCall(turn.toolCalls, callIndex + 1)
                            /\ callIndex' = callIndex + 1
                            /\ pc' = "tool"
                            /\ UNCHANGED <<turn, requests>>
                       ELSE /\ requests < MaxTurns
                            /\ events' = sent
                            /\ history' = Append(hist, RequestOp(conv))
                            /\ callIndex' = 0
                            /\ pc' = "fetch"
                            /\ turn' = NewTurn(uuid)
                            /\ requests' = requests + 1
                  /\ stream' = Outbound(stream, Added, pc')
  /\ UNCHANGED <<apiKey, session, prompt, sessionId, uuid, lastSession, chained,
                 finalConversation, priorConversation, reads, exchanges, turnvars, routevars>>

Next ==
  \/ \E p \in Prompts, sess \in {NoSession, lastSession} :
       CreateAgentResponse(p, sess) /\ UNCHANGED <<sd, sidevars>>
  \/ \E outcome \in FetchOutcomes : FetchSettles(outcome) /\ UNCHANGED <<sd, sidevars>>
  \/ \E chunk \in LoopChunks : Read(chunk) /\ UNCHANGED <<sd, sidevars>>
  \/ ReadDone /\ UNCHANGED <<sd, sidevars>>
  \/ ToolSettles /\ UNCHANGED <<sd, sidevars>>

Spec == Init /\ [][Next]_vars

(***************************************************************************)
(* streamClaudeTurn on its own.                                            *)
(*                                                                         *)
(* SpecSplit: the response body is a transcript of up to MaxFrames frames, *)
(* possibly followed by a frame that is never terminated; every read       *)
(* delivers the next characters of it, any number of them.  delivered      *)
(* records whether a read ended between the two line breaks of a blank     *)
(* line.                                                                   *)
(***************************************************************************)
SplitFrames ==
  {StartText(0), TextDelta(0, <<"a">>), StartTool(0, "tu1", "run_javascript"),
   InputJsonDelta(0, <<"{", "G", "}">>), BlockStop(0), MessageStop, ErrorFrame,
   DoneFrame, MalformedFrame}

\* A frame the stream ends in the middle of.
UnterminatedFrame == SubSeq(BlockStop(0), 1, Len(BlockStop(0)) - 1)

RECURSIVE FrameSeqs(_)
FrameSeqs(n) ==
  IF n = 0 THEN {<<>>}
  ELSE FrameSeqs(n - 1)
       \cup {Append(fs, f) : fs \in FrameSeqs(n - 1), f \in SplitFrames}

Transcripts ==
  {Concat(fs) \o tail : fs \in FrameSeqs(MaxFrames), tail \in {<<>>, UnterminatedFrame}}

TurnOnly == LoopIdle /\ RouteIdle /\ sd = NoSd /\ SideIdle /\ apiKey = TRUE /\ reads = 0

InitSplit ==
  /\ TurnOnly
  /\ turn = NewTurn(0)
  /\ transcript \in Transcripts
  /\ pos = 0
  /\ tctl = "reading"
  /\ delivered = [cutDelimiter |-> FALSE]

TurnControl(ctl) ==
  IF ctl = "more" THEN "reading" ELSE IF ctl = "return" THEN "returned" ELSE "thrown"

\* reader.read() delivers the next n characters of the body.
ReadSplit(n) ==
  /\ tctl = "reading"
  /\ pos + n <= Len(transcript)
  /\ LET r == OnChunk(turn, SubSeq(transcript, pos + 1, pos + n))
     IN /\ turn' = r.st
        /\ tctl' = TurnControl(r.ctl)
  /\ pos' = pos + n
  /\ delivered' =
       [cutDelimiter |-> \/ delivered.cutDelimiter
                        \/ /\ pos + n < Len(transcript)
                           /\ transcript[pos + n] = NL
                           /\ transcript[pos + n + 1] = NL]
  /\ UNCHANGED <<loopvars, routevars, sd, sidevars, reads, transcript>>

\* reader.read() reports the end of the body.
EndSplit ==
  /\ tctl = "reading"
  /\ pos = Len(transcript)
  /\ LET r == OnEndOfStream(turn)
     IN /\ turn' = r.st
        /\ tctl' = TurnControl(r.ctl)
  /\ UNCHANGED <<loopvars, routevars, sd, sidevars, reads, transcript, pos, delivered>>

NextSplit ==
  \/ \E n \in 1..Len(transcript) : ReadSplit(n)
  \/ EndSplit

SpecSplit == InitSplit /\ [][NextSplit]_vars

(***************************************************************************)
(* SpecTurn: every read delivers one frame out of TurnFrames, in any       *)
(* order, up to MaxTurnReads of them.  delivered is the frame of the last  *)
(* read.                                                                   *)
(***************************************************************************)
TurnFrames ==
  {StartText(0), StartText(2), TextDelta(0, <<"a">>), TextDelta(0, <<"b">>),
   StartTool(0, "tu1", "run_javascript"), StartTool(2, "tu2", "delete_everything"),
   InputJsonDelta(0, <<"{">>), InputJsonDelta(0, <<"G", "}">>),
   BlockStop(0), BlockStop(2), MessageStop, ErrorFrame, DoneFrame, MalformedFrame,
   MalformedErrorFrame}

InitTurn ==
  /\ TurnOnly
  /\ turn = NewTurn(0)
  /\ transcript = <<>>
  /\ pos = 0
  /\ tctl = "reading"
  /\ delivered = <<>>

\* reader.read() delivers a frame.
ReadFrame(frame) ==
  /\ tctl = "reading"
  /\ reads < MaxTurnReads
  /\ reads' = reads + 1
  /\ LET r == OnChunk(turn, frame)
     IN /\ turn' = r.st
        /\ tctl' = TurnControl(r.ctl)
  /\ delivered' = frame
  /\ UNCHANGED <<loopvars, routevars, sd, sidevars, transcript, pos>>

\* reader.read() reports the end of the body.
EndTurn ==
  /\ tctl = "reading"
  /\ LET r == OnEndOfStream(turn)
     IN /\ turn' = r.st
        /\ tctl' = TurnControl(r.ctl)
  /\ UNCHANGED <<loopvars, routevars, sd, sidevars, reads, transcript, pos, delivered>>

NextTurn ==
  \/ \E frame \in TurnFrames : ReadFrame(frame)
  \/ EndTurn

SpecTurn == InitTurn /\ [][NextTurn]_vars

(***************************************************************************)
(* SpecInput: a tool-use block at position 0 has been started; its         *)
(* arguments arrive one character per input_json_delta, any characters, up *)
(* to MaxFragments of them, and then the block is stopped.  delivered is   *)
(* the concatenation of the fragments sent.                                *)
(***************************************************************************)
StartedTool == OnChunk(NewTurn(0), StartTool(0, "tu1", "run_javascript")).st

InitInput ==
  /\ TurnOnly
  /\ turn = StartedTool
  /\ transcript = <<>>
  /\ pos = 0
  /\ tctl = "reading"
  /\ delivered = <<>>


\* The frames of a fragment arrive.
SendFragment(c) ==
  /\ tctl = "reading"
  /\ Len(delivered) < MaxFragments
  /\ LET r == OnChunk(turn, InputJsonDelta(0, <<c>>))
     IN /\ turn' = r.st
        /\ tctl' = TurnControl(r.ctl)
  /\ delivered' = Append(delivered, c)
  /\ UNCHANGED <<loopvars, routevars, sd, sidevars, reads, transcript, pos>>

\* content_block_stop for the block arrives.
SendStop ==
  /\ tctl = "reading"
  /\ LET r == OnChunk(turn, BlockStop(0))
     IN /\ turn' = r.st
        /\ tctl' = IF r.ctl = "more" THEN "stopped" ELSE TurnControl(r.ctl)
  /\ UNCHANGED <<loopvars, routevars, sd, sidevars, reads, transcript, pos, delivered>>

NextInput ==
  \/ \E c \in JsonChars : SendFragment(c)
  \/ SendStop

SpecInput == InitInput /\ [][NextInput]_vars

(***************************************************************************)
(* SpecDeliver: one invocation of createAgentResponse together with the    *)
(* reader of its outbound stream, which reads or cancels at any moment.    *)
(***************************************************************************)
DeliverChunks ==
  {StartText(0) \o TextDelta(0, <<"a">>),
   StartTool(0, "tu1", "run_javascript") \o InputJsonDelta(0, <<"{", "G", "}">>)
     \o BlockStop(0),
   MessageStop, ErrorFrame}

\* The consumer calls reader.read().
ReaderReads ==
  /\ stream.state # "none"
  /\ stream.reader = "open"
  /\ ~stream.readPending
  /\ stream' = ReaderRead(stream)
  /\ UNCHANGED <<invocationvars, turn, reads, turnvars, routevars, sd, sidevars>>

\* The consumer calls reader.cancel().
ReaderCancels ==
  /\ stream.state = "readable"
  /\ stream.reader = "open"
  /\ stream' = ReaderCancel(stream)
  /\ UNCHANGED <<invocationvars, turn, reads, turnvars, routevars, sd, sidevars>>

NextDeliver ==
  \/ \E p \in Prompts :
       exchanges = 0 /\ CreateAgentResponse(p, NoSession) /\ UNCHANGED <<sd, sidevars>>
  \/ \E outcome \in FetchOutcomes : FetchSettles(outcome) /\ UNCHANGED <<sd, sidevars>>
  \/ \E chunk \in DeliverChunks : Read(chunk) /\ UNCHANGED <<sd, sidevars>>
  \/ ReadDone /\ UNCHANGED <<sd, sidevars>>
  \/ ToolSettles /\ UNCHANGED <<sd, sidevars>>
  \/ ReaderReads
  \/ ReaderCancels

SpecDeliver == Init /\ [][NextDeliver]_vars

(***************************************************************************)
(* SpecEnd: every read delivers a chunk of up to three parts: a frame      *)
(* (or nothing), a terminal frame (message_stop, the [DONE] frame, or      *)
(* nothing) and what the body holds after the terminal frame.  delivered   *)
(* is the chunk of the last read, by its parts.                            *)
(***************************************************************************)
EndFrames ==
  {StartText(0), TextDelta(0, <<"a">>), StartTool(0, "tu1", "run_javascript"),
   InputJsonDelta(0, <<"{", "G", "}">>), BlockStop(0)}

TerminalFrames == {MessageStop, DoneFrame}

AfterTerminal ==
  {<<>>, TextDelta(0, <<"a">>), StartTool(1, "tu2", "run_javascript") \o BlockStop(1),
   BlockStop(0), ErrorFrame}

NothingDelivered == [before |-> <<>>, terminal |-> <<>>, after |-> <<>>]

InitEnd ==
  /\ TurnOnly
  /\ turn = NewTurn(0)
  /\ transcript = <<>>
  /\ pos = 0
  /\ tctl = "reading"
  /\ delivered = NothingDelivered

\* reader.read() delivers a chunk.
ReadParts(before, terminal, after) ==
  /\ tctl = "reading"
  /\ reads < MaxTurnReads
  /\ reads' = reads + 1
  /\ LET r == OnChunk(turn, before \o terminal \o after)
     IN /\ turn' = r.st
        /\ tctl' = TurnControl(r.ctl)
  /\ delivered' = [before |-> before, terminal |-> terminal, after |-> after]
  /\ UNCHANGED <<loopvars, routevars, sd, sidevars, transcript, pos>>

NextEnd ==
  \/ \E frame \in EndFrames : ReadParts(frame, <<>>, <<>>)
  \/ \E before \in EndFrames \cup {<<>>}, terminal \in TerminalFrames,
        after \in AfterTerminal : ReadParts(before, terminal, after)
  \/ EndTurn

SpecEnd == InitEnd /\ [][NextEnd]_vars

(***************************************************************************)
(* The StreamData variant of createAgentResponse (lib/agent.ts).  Its      *)
(* streamClaudeTurn is that of the line-delimited variant with             *)
(* data.append in the place of emitEvent and controller.enqueue on the     *)
(* text stream in the place of emitText.  Each step is an operator from    *)
(* the state before to the state after.                                    *)
(***************************************************************************)
\* finally { controller.close(); data.close(); }: close throws on a stream
\* that is errored or closed, and data.close() is then not reached.
SdFinally(s) ==
  IF EnqueueThrows(s.text) THEN s
  ELSE [s EXCEPT !.text = ControllerClose(@), !.dataClosed = TRUE]

\* catch (error) { controller.error(error); }, then finally
SdFail(s) == SdFinally([s EXCEPT !.pc = "failed", !.text = ControllerError(@)])

\* Mutant: the tool-request event of a started tool-use block is not appended.
SdAppend_NoToolRequest(data, event) ==
  IF event.type = "tool-request" THEN data ELSE Append(data, event)

\* data.append(event)
SdAppend(data, event) == Append(data, event)

\* The calls a step of the turn made: text goes to the text stream, a
\* tool-request to the data channel.  pc is "throwing" when enqueue threw.
RECURSIVE SdApplyOut(_, _)
SdApplyOut(s, out) ==
  IF out = <<>> THEN s
  ELSE LET o == Head(out)
       IN IF o.fn = "emitText"
            THEN IF EnqueueThrows(s.text) THEN [s EXCEPT !.pc = "throwing"]
                 ELSE SdApplyOut([s EXCEPT !.text = ControllerEnqueue(@, o.text)],
                                 Tail(out))
            ELSE SdApplyOut([s EXCEPT !.data = SdAppend(@, o.event)], Tail(out))

\* createAgentResponse up to its first await.
SdCreate(s, p, sess, key) ==
  LET userMessage == TextMessage("user", p)
      conv == InitialConversation(sess, userMessage)
      u == IF sess.given THEN s.uuid ELSE s.uuid + 1
      started ==
        [pc |-> "fetch", sessionId |-> SessionIdFor(sess, s.uuid),
         conversation |-> conv, data |-> SdAppend(<<>>, MessageEvent(userMessage)),
         dataClosed |-> FALSE, text |-> NewStream, turn |-> NewTurn(u),
         callIndex |-> 0, uuid |-> u, history |-> <<RequestOp(conv)>>]
  IN IF getAnthropicHeaders(key).thrown
       THEN SdFail([started EXCEPT !.history = <<>>])
       ELSE started

\* await fetch(...) settles.
SdFetchSettles(s, outcome) ==
  IF s.pc # "fetch" THEN s
  ELSE IF outcome = "ok" THEN [s EXCEPT !.pc = "read"]
  ELSE SdFail(s)

\* streamClaudeTurn returned.
SdTurnReturns(s) ==
  LET assistantMessage == [role |-> "assistant", content |-> s.turn.content]
      conv == ConversationPush(s.conversation, assistantMessage)
      calls == s.turn.toolCalls
      hist == Append(s.history, [op |-> "turn", calls |-> calls, len |-> Len(conv)])
      pushed == [s EXCEPT !.conversation = conv, !.uuid = s.turn.uuid,
                          !.data = SdAppend(@, MessageEvent(assistantMessage))]
  IN IF LoopBreaks(calls)
       THEN SdFinally([pushed EXCEPT
                         !.data = SdAppend(@, SessionEvent(s.sessionId, conv)),
                         !.pc = "done", !.callIndex = 0, !.history = hist])
       ELSE [pushed EXCEPT !.data = SdAppend(@, ToolCallEvent(calls[1])),
                           !.pc = "tool", !.callIndex = 1,
                           !.history = hist \o StartCall(calls, 1)]

\* What a step of the read loop leads to.
SdAfterRead(s, r) ==
  LET applied == SdApplyOut([s EXCEPT !.turn = r.st], r.st.out)
  IN IF applied.pc = "throwing" THEN SdFail(applied)
     ELSE IF r.ctl = "more" THEN applied
     ELSE IF r.ctl = "return" THEN SdTurnReturns(applied)
     ELSE SdFail(applied)

\* reader.read() delivers a chunk.
SdRead(s, chunk) ==
  IF s.pc # "read" THEN s
  ELSE SdAfterRead(s, OnChunk([s.turn EXCEPT !.out = <<>>], chunk))

\* reader.read() reports the end of the body.
SdReadDone(s) ==
  IF s.pc # "read" THEN s
  ELSE SdAfterRead(s, OnEndOfStream([s.turn EXCEPT !.out = <<>>]))

\* The data appended for a settled tool call: append them in order.
RECURSIVE SdAppendAll(_, _)
SdAppendAll(data, evs) ==
  IF evs = <<>> THEN data ELSE SdAppendAll(SdAppend(data, Head(evs)), Tail(evs))

\* await runTool(...) settles for the call the for loop is at.
SdToolSettles(s) ==
  IF s.pc # "tool" THEN s
  ELSE LET call == s.turn.toolCalls[s.callIndex]
           r == runTool(call.name, call.input)
       IN IF r.settled = "rejected" THEN SdFail(s)
          ELSE LET result == r.value
                   toolMessage ==
                     [role |-> "tool",
                      content |-> <<[type |-> "tool_result", tool_use_id |-> call.id,
                                     content |-> renderToolResult(result)]>>]
                   conv == ConversationPush(s.conversation, toolMessage)
                   hist == Append(s.history, [op |-> "toolMessage", id |-> call.id])
                   settled == [s EXCEPT
                                 !.conversation = conv,
                                 !.data = SdAppendAll(@,
                                            ToolSettledEvents(call, result, toolMessage))]
               IN IF s.callIndex < Len(s.turn.toolCalls)
                    THEN [settled EXCEPT
                            !.data = SdAppend(@,
                                       ToolCallEvent(s.turn.toolCalls[s.callIndex + 1])),
                            !.history = hist \o StartCall(s.turn.toolCalls,
                                                          s.callIndex + 1),
                            !.callIndex = s.callIndex + 1]
                    ELSE [settled EXCEPT
                            !.history = Append(hist, RequestOp(conv)),
                            !.callIndex = 0, !.pc = "fetch",
                            !.turn = NewTurn(s.uuid)]

(***************************************************************************)
(* SpecVariants: the two variants of createAgentResponse side by side,     *)
(* given the same prompts and sessions, the same outcomes of fetch, the    *)
(* same chunks of the model's response and the same tool results.          *)
(***************************************************************************)
VariantChunks ==
  {StartText(0) \o TextDelta(0, <<"a">>),
   StartTool(0, "tu1", "run_javascript"),
   InputJsonDelta(0, <<"{", "G", "}">>) \o BlockStop(0),
   InputJsonDelta(0, <<"{", "S", "}">>) \o BlockStop(0),
   StartTool(1, "tu2", "delete_everything") \o BlockStop(1),
   MessageStop, ErrorFrame}

NextVariants ==
  \/ \E p \in Prompts, sess \in {NoSession, lastSession} :
       CreateAgentResponse(p, sess) /\ sd' = SdCreate(sd, p, sess, apiKey)
         /\ UNCHANGED sidevars
  \/ \E outcome \in FetchOutcomes :
       FetchSettles(outcome) /\ sd' = SdFetchSettles(sd, outcome)
         /\ UNCHANGED sidevars
  \/ \E chunk \in VariantChunks : Read(chunk) /\ sd' = SdRead(sd, chunk)
         /\ UNCHANGED sidevars
  \/ ReadDone /\ sd' = SdReadDone(sd)
         /\ UNCHANGED sidevars
  \/ ToolSettles /\ sd' = SdToolSettles(sd)
         /\ UNCHANGED sidevars

SpecVariants == Init /\ [][NextVariants]_vars

(***************************************************************************)
(* The tool host: the todo_manager tool and the execute route.  A field a  *)
(* request leaves out has the value Undefined.                             *)
(***************************************************************************)
Undefined == "undefined"

\* The values a JSON payload can carry in a field.  A string is the sequence
\* of its pieces, " " standing for a run of white space; a field the payload
\* leaves out is JsUndefined.
JsUndefined == [type |-> "undefined"]
JsNull == [type |-> "null"]
JsString(chars) == [type |-> "string", chars |-> chars]
\* A number, counted in tenths; 1e999 is parsed to Infinity.
JsNumber(tenths) == [type |-> "number", finite |-> TRUE, tenths |-> tenths]
JsInfinity == [type |-> "number", finite |-> FALSE, tenths |-> 0]
JsArray(items) == [type |-> "array", items |-> items]

\* typeof v === "string"
IsString(v) == v.type = "string"

\* String.prototype.trim
StringTrim(chars) == TrimRight(TrimLeft(chars, {" "}), {" "})

\* The text of a string, its pieces joined.
RECURSIVE TextOf(_)
TextOf(chars) == IF chars = <<>> THEN "" ELSE Head(chars) \o TextOf(Tail(chars))

\* Truthiness of a value: undefined, null, "" and 0 are falsy.
Truthy(v) ==
  CASE v.type \in {"undefined", "null"} -> FALSE
    [] v.type = "string" -> v.chars # <<>>
    [] v.type = "number" -> ~v.finite \/ v.tenths # 0
    [] OTHER -> TRUE

\* Array.isArray(v) && every entry is a string
IsStringArray(v) ==
  v.type = "array" /\ \A i \in DOMAIN v.items : IsString(v.items[i])

\* `todo-${(todos.length + 1).toString().padStart(3, "0")}`
TodoId(n) ==
  (IF n < 10 THEN "todo-00" ELSE IF n < 100 THEN "todo-0" ELSE "todo-") \o ToString(n)

\* Mutant: the new todo takes the place of the last one instead of being
\* pushed.
addTodo_ReplacesLast(tds, title, tags) ==
  [tds EXCEPT ![Len(tds)] =
     [id |-> TodoId(Len(tds) + 1), title |-> title, status |-> "pending", tags |-> tags]]

\* addTodo: the list after the push; the new todo is its last item.
addTodo(tds, title, tags) ==
  Append(tds, [id |-> TodoId(Len(tds) + 1), title |-> title, status |-> "pending",
               tags |-> tags])

\* Mutant: completing a todo completes every todo.
completeTodo_CompletesAll(tds, id) ==
  [i \in DOMAIN tds |-> [tds[i] EXCEPT !.status = "completed"]]

\* completeTodo: the first todo with the id is completed; the list is left as
\* it is when no todo has the id (the function returns null).
completeTodo(tds, id) ==
  LET found == {i \in DOMAIN tds : tds[i].id = id}
      first == CHOOSE i \in found : \A j \in found : i <= j
  IN IF found = {} THEN tds ELSE [tds EXCEPT ![first].status = "completed"]

\* Mutant: the filter is ignored and the pending todos are listed.
listTodos_AlwaysPending(tds, filter) ==
  SeqFilter(tds, {t \in {tds[i] : i \in DOMAIN tds} : t.status = "pending"})

\* listTodos(filter)
listTodos(tds, filter) ==
  IF filter = "all" THEN tds
  ELSE SeqFilter(tds, {t \in {tds[i] : i \in DOMAIN tds} : t.status = filter})

\* A payload that parsePayload rejects.
PayloadError(message) == [action |-> "error", message |-> message]

\* parsePayload: the action, or the error it returns.
parsePayload(payload) ==
  IF ~IsString(payload.action)
    THEN PayloadError("Expected action to be a string.")
  ELSE IF payload.action.chars = <<"list">>
    THEN IF payload.filter # JsUndefined /\ ~IsString(payload.filter)
           THEN PayloadError("filter must be a string if provided.")
         ELSE IF Truthy(payload.filter)
                 /\ TextOf(payload.filter.chars) \notin {"all", "pending", "completed"}
           THEN PayloadError("filter must be one of all, pending, or completed.")
         ELSE [action |-> "list",
               filter |-> IF payload.filter = JsUndefined THEN "pending"
                          ELSE TextOf(payload.filter.chars)]
  ELSE IF payload.action.chars = <<"add">>
    THEN IF ~IsString(payload.title) \/ StringTrim(payload.title.chars) = <<>>
           THEN PayloadError("title is required when adding a todo.")
         ELSE IF payload.tags # JsUndefined /\ ~IsStringArray(payload.tags)
           THEN PayloadError("tags must be an array of strings when provided.")
         ELSE [action |-> "add", title |-> StringTrim(payload.title.chars),
               tags |-> IF payload.tags = JsUndefined THEN <<>> ELSE payload.tags.items]
  ELSE IF payload.action.chars = <<"complete">>
    THEN IF ~IsString(payload.id) \/ StringTrim(payload.id.chars) = <<>>
           THEN PayloadError("id is required when completing a todo.")
         ELSE [action |-> "complete", id |-> TextOf(StringTrim(payload.id.chars))]
  ELSE PayloadError("Unsupported action. Use list, add, or complete.")

\* runTodoManager(payload) on the todo list tds: the response and the list
\* after it.  A result is [items |-> the todos listed] or [item |-> the todo
\* added or completed].
runTodoManager(tds, payload) ==
  LET parsed == parsePayload(payload)
  IN IF parsed.action = "error"
       THEN [value |-> ToolError(parsed.message, <<"Validate payload">>), todos |-> tds]
     ELSE IF parsed.action = "list"
       THEN [value |-> ToolOk([items |-> listTodos(tds, parsed.filter)],
                              <<"Validate payload", "Retrieve todos", "Summarize payload">>),
             todos |-> tds]
     ELSE IF parsed.action = "add"
       THEN LET pushed == addTodo(tds, parsed.title, parsed.tags)
            IN [value |-> ToolOk([item |-> pushed[Len(pushed)]],
                                 <<"Validate payload", "Create todo", "Confirm persistence">>),
                todos |-> pushed]
     ELSE IF \A i \in DOMAIN tds : tds[i].id # parsed.id
       THEN [value |-> ToolError("Unable to find todo with id " \o parsed.id,
                                 <<"Validate payload", "Mark complete">>),
             todos |-> tds]
     ELSE LET updated == completeTodo(tds, parsed.id)
              first == CHOOSE i \in DOMAIN tds :
                         /\ tds[i].id = parsed.id
                         /\ \A j \in DOMAIN tds : tds[j].id = parsed.id => i <= j
          IN [value |-> ToolOk([item |-> updated[first]],
                               <<"Validate payload", "Mark complete", "Confirm persistence">>),
              todos |-> updated]

\* The payloads a request can carry for todo_manager.
TodoPayload(action, filter, title, tags, id) ==
  [kind |-> "object", members |-> {}, action |-> action, filter |-> filter,
   title |-> title, tags |-> tags, id |-> id]

ListPayload(filter) ==
  TodoPayload(JsString(<<"list">>), filter, JsUndefined, JsUndefined, JsUndefined)
AddPayload(title, tags) ==
  TodoPayload(JsString(<<"add">>), JsUndefined, title, tags, JsUndefined)
CompletePayload(id) ==
  TodoPayload(JsString(<<"complete">>), JsUndefined, JsUndefined, JsUndefined, id)

TodoPayloads ==
  {TodoPayload(JsUndefined, JsUndefined, JsUndefined, JsUndefined, JsUndefined),
   TodoPayload(JsNumber(1), JsUndefined, JsUndefined, JsUndefined, JsUndefined),
   TodoPayload(JsString(<<"purge">>), JsUndefined, JsUndefined, JsUndefined, JsUndefined),
   ListPayload(JsUndefined), ListPayload(JsString(<<"all">>)),
   ListPayload(JsString(<<"pending">>)), ListPayload(JsString(<<"completed">>)),
   ListPayload(JsString(<<>>)), ListPayload(JsString(<<"done">>)),
   ListPayload(JsNumber(1)), ListPayload(JsNull),
   AddPayload(JsString(<<" ", "t", " ">>), JsUndefined),
   AddPayload(JsString(<<"u">>), JsArray(<<JsString(<<"x">>)>>)),
   AddPayload(JsString(<<" ">>), JsUndefined), AddPayload(JsUndefined, JsUndefined),
   AddPayload(JsString(<<"t">>), JsArray(<<JsNumber(1)>>)),
   AddPayload(JsString(<<"t">>), JsString(<<"x">>)),
   CompletePayload(JsString(<<"todo-001">>)), CompletePayload(JsString(<<" ", "todo-003">>)),
   CompletePayload(JsString(<<"todo-004">>)), CompletePayload(JsString(<<"todo-009">>)),
   CompletePayload(JsString(<<" ">>)), CompletePayload(JsUndefined)}

\* String.prototype.toLowerCase, piece by piece.
LowerPiece(p) ==
  CASE p = "AN" -> "an"
    [] p = "MCP" -> "mcp"
    [] p = "Dry-Run" -> "dry-run"
    [] p = "JavaScript" -> "javascript"
    [] p = "Pl" -> "pl"
    [] p = "Isolated " -> "isolated "
    [] p = "Designing " -> "designing "
    [] p = "Model Context Protocol primer" -> "model context protocol primer"
    [] p = "Overview of how the " -> "overview of how the "
    [] p = " async IIFE, captures console output, " ->
         " async iife, captures console output, "
    [] p = "Explains the recommended " -> "explains the recommended "
    [] p = "Quick-start guide describing how hosts " ->
         "quick-start guide describing how hosts "
    [] p = "Tactics for issuing " -> "tactics for issuing "
    [] OTHER -> p

ToLowerCase(chars) == [i \in DOMAIN chars |-> LowerPiece(chars[i])]

\* String.prototype.includes: the pieces of the query occur in a row.  The
\* texts of the knowledge base are cut at every place where a query of the
\* model occurs.
Includes(chars, query) ==
  \E i \in 0..(Len(chars) - Len(query)) :
    SubSeq(chars, i + 1, i + Len(query)) = query

\* The knowledge base, in corpus order.
KNOWLEDGE_BASE ==
  <<[id |-> "kb-001",
   title |-> <<"Isolated ", "JavaScript", " execution">>,
   summary |->
     <<"Overview of how the ",
       "s",
       "an",
       "dbox",
       " wraps user code in ",
       "an",
       " async IIFE, captures console output, ",
       "an",
       "d enforces a 1s timeout.">>,
   url |-> "https://example.com/docs/isolated-js",
   tags |-> <<<<"s", "an", "dbox">>, <<"javascript">>, <<"vm">>>>],
    [id |-> "kb-002",
   title |-> <<"Designing ", "tool", " ", "trace", "s">>,
   summary |->
     <<"Explains the recommended ",
       "trace",
       " format so clients c",
       "an",
       " narrate each phase of a ",
       "tool",
       " invocation back to the user.">>,
   url |-> "https://example.com/docs/tracing",
   tags |-> <<<<"observability">>, <<"trace">>>>],
    [id |-> "kb-003",
   title |-> <<"Model Context Protocol primer">>,
   summary |->
     <<"Quick-start guide describing how hosts ",
       "an",
       "nounce ",
       "tool",
       "s, negotiate sessions, ",
       "an",
       "d stream intermediate results.">>,
   url |-> "https://example.com/docs/mcp-primer",
   tags |-> <<<<"mcp">>, <<"protocol">>>>],
    [id |-> "kb-004",
   title |-> <<"Pl", "an", "ning ", "dry-run", "s">>,
   summary |->
     <<"Tactics for issuing ",
       "dry-run",
       " requests so the model c",
       "an",
       " inspect schemas before executing potentially unsafe actions.">>,
   url |-> "https://example.com/docs/dry-runs",
   tags |-> <<<<"pl", "an", "ning">>, <<"safety">>>>]>>


\* normalizeQuery
normalizeQuery(chars) == ToLowerCase(StringTrim(chars))

\* Mutant: the requested tags are not looked at.
matches_IgnoresTags(entry, input) ==
  LET query == normalizeQuery(input.query)
  IN \/ Includes(ToLowerCase(entry.title), query)
     \/ Includes(ToLowerCase(entry.summary), query)
     \/ \E t \in DOMAIN entry.tags : Includes(ToLowerCase(entry.tags[t]), query)

\* matches(entry, input); input.tags is <<>> when no tags are given.
matches(entry, input) ==
  LET query == normalizeQuery(input.query)
      inTitle == Includes(ToLowerCase(entry.title), query)
      inSummary == Includes(ToLowerCase(entry.summary), query)
      tagMatches == \E t \in DOMAIN entry.tags : Includes(ToLowerCase(entry.tags[t]), query)
      requestedTags == {TextOf(ToLowerCase(input.tags[i].chars)) : i \in DOMAIN input.tags}
      hasRequiredTag ==
        \E t \in DOMAIN entry.tags : TextOf(ToLowerCase(entry.tags[t])) \in requestedTags
  IN IF Len(input.tags) > 0 /\ ~hasRequiredTag THEN FALSE
     ELSE inTitle \/ inSummary \/ tagMatches

\* Math.max(1, Math.min(5, Math.floor(topK)))
ClampTopK(tenths) ==
  LET floor == tenths \div 10
      atMost == IF floor < 5 THEN floor ELSE 5
  IN IF atMost > 1 THEN atMost ELSE 1

\* KNOWLEDGE_BASE.filter(...).slice(0, topK)
RECURSIVE FilterEntries(_, _)
FilterEntries(entries, input) ==
  IF entries = <<>> THEN <<>>
  ELSE IF matches(Head(entries), input)
         THEN <<Head(entries)>> \o FilterEntries(Tail(entries), input)
         ELSE FilterEntries(Tail(entries), input)

Slice(s, k) == SubSeq(s, 1, IF Len(s) < k THEN Len(s) ELSE k)

\* runKnowledgeBaseLookup
runKnowledgeBaseLookup(payload) ==
  IF ~IsString(payload.query) \/ StringTrim(payload.query.chars) = <<>>
    THEN ToolError("Expected query to be a non-empty string.", <<"Validate payload">>)
  ELSE IF payload.tags.type = "array" /\ ~IsStringArray(payload.tags)
    THEN ToolError("All tags entries must be strings.", <<"Validate payload">>)
  ELSE IF payload.tags.type # "array" /\ payload.tags # JsUndefined
    THEN ToolError("tags must be an array of strings when provided.",
                   <<"Validate payload">>)
  ELSE IF payload.topK # JsUndefined
          /\ (payload.topK.type # "number" \/ ~payload.topK.finite)
    THEN ToolError("topK must be a finite number when provided.", <<"Validate payload">>)
  ELSE LET topK == IF payload.topK = JsUndefined THEN 3
                   ELSE ClampTopK(payload.topK.tenths)
           scopedInput ==
             [query |-> payload.query.chars,
              tags |-> IF payload.tags = JsUndefined THEN <<>> ELSE payload.tags.items,
              topK |-> topK]
       IN ToolOk([items |-> Slice(FilterEntries(KNOWLEDGE_BASE, scopedInput), topK)],
                 <<"Validate payload", "Rank entries", "Prepare response">>)

\* The payloads a request can carry for kb_lookup.
KbPayload(query, tags, topK) ==
  [kind |-> "object", members |-> {}, query |-> query, tags |-> tags, topK |-> topK]

KbQueries ==
  {JsString(<<"an">>), JsString(<<" ", "AN", " ">>), JsString(<<"s", "an", "dbox">>),
   JsString(<<"tool">>), JsString(<<"Dry-Run">>), JsString(<<"mcp">>),
   JsString(<<"zzz">>), JsString(<<" ">>), JsUndefined, JsNumber(10)}

KbTags ==
  {JsUndefined, JsArray(<<>>), JsArray(<<JsString(<<"MCP">>)>>),
   JsArray(<<JsString(<<"pl", "an", "ning">>), JsString(<<"trace">>)>>),
   JsArray(<<JsNumber(10)>>), JsString(<<"mcp">>), JsNull}

KbTopKs ==
  {JsUndefined, JsNumber(0), JsNumber(10), JsNumber(20), JsNumber(27), JsNumber(90),
   JsNumber(-10), JsInfinity, JsString(<<"2">>)}

KbPayloads == {KbPayload(q, t, k) : q \in KbQueries, t \in KbTags, k \in KbTopKs}

\* runTool as the execute route calls it: the settled promise and the todo
\* list after the call.
runToolOnStore(toolName, input, tds) ==
  IF toolName = "todo_manager" /\ "action" \in DOMAIN input
    THEN [settled |-> Resolved(runTodoManager(tds, input).value),
          todos |-> runTodoManager(tds, input).todos]
  ELSE IF toolName = "kb_lookup" /\ "query" \in DOMAIN input
    THEN [settled |-> Resolved(runKnowledgeBaseLookup(input)), todos |-> tds]
  ELSE [settled |-> runTool(toolName, input), todos |-> tds]

\* An entry of the tool registry.
Tool(name) ==
  [name |-> name, description |-> "description of " \o name,
   inputSchema |-> "inputSchema of " \o name, examples |-> "examples of " \o name,
   categories |-> "categories of " \o name]

\* getTool: {} for undefined.
getTool(toolName) == IF toolName \in RegisteredTools THEN {Tool(toolName)} ELSE {}

\* The input of a request that carries none.
NoInput == [kind |-> "undefined", members |-> {}]

\* A request whose body is no JSON text (request.json() rejects), the JSON
\* text null, or a JSON number.
MalformedBody == [json |-> "malformed"]
NullBody == [json |-> "null"]
NumberBody == [json |-> "number"]

\* The requests to the execute route.
ExecuteBodies ==
  {MalformedBody, NullBody, NumberBody} \cup
  [toolName : {Undefined, "", "todo_manager", "run_javascript", "delete_everything"},
   mode : {Undefined, "dry-run", "execute", "plan"},
   input : {NoInput, ListPayload(JsUndefined), AddPayload(JsString(<<"t">>), JsUndefined),
            CompletePayload(JsString(<<"todo-001">>)),
            [kind |-> "object", members |-> {"S"}]}]

\* const mode = body.mode ?? "execute"
ModeOf(body) == IF body.mode = Undefined THEN "execute" ELSE body.mode

\* POST /api/execute
POST(body) ==
  LET toolName == IF body = NumberBody THEN Undefined ELSE body.toolName
      mode == IF body = NumberBody THEN "execute" ELSE ModeOf(body)
      found == getTool(toolName)
      tool == CHOOSE t \in found : TRUE
      input == IF body.input = NoInput THEN EmptyObject ELSE body.input
      ran == runToolOnStore(toolName, input, todos)
  IN /\ IF body = MalformedBody
          THEN /\ response' = [status |-> 500, body |-> [message |-> "SyntaxError"]]
               /\ UNCHANGED <<todos, invoked>>
        ELSE IF body = NullBody
          THEN /\ response' = [status |-> 500, body |-> [message |-> "TypeError"]]
               /\ UNCHANGED <<todos, invoked>>
        ELSE IF toolName \in {Undefined, ""}
          THEN /\ response' = [status |-> 400,
                               body |-> [ok |-> FALSE, message |-> "Missing tool name"]]
               /\ UNCHANGED <<todos, invoked>>
        ELSE IF found = {}
          THEN /\ response' = [status |-> 404,
                               body |-> [ok |-> FALSE,
                                         message |-> "Unknown tool: " \o toolName]]
               /\ UNCHANGED <<todos, invoked>>
        ELSE IF mode = "dry-run"
          THEN /\ response' = [status |-> 200,
                               body |-> [ok |-> TRUE, mode |-> mode,
                                         tool |-> [name |-> tool.name,
                                                   description |-> tool.description,
                                                   inputSchema |-> tool.inputSchema,
                                                   examples |-> tool.examples,
                                                   categories |-> tool.categories]]]
               /\ UNCHANGED <<todos, invoked>>
        ELSE /\ Len(ran.todos) <= MaxTodos
             /\ invoked' = [op |-> "runTool", name |-> toolName, mode |-> mode,
                            input |-> input]
             /\ todos' = ran.todos
             /\ response' =
                  IF ran.settled.settled = "rejected"
                    THEN [status |-> 500, body |-> [message |-> ran.settled.message]]
                    ELSE [status |-> 200,
                          body |-> [ok |-> ran.settled.value.ok, mode |-> mode,
                                    toolName |-> toolName,
                                    response |-> ran.settled.value]]
     /\ UNCHANGED <<loopvars, turn, reads, turnvars, sd, sidevars>>

InitExecute == Init /\ apiKey = TRUE

NextExecute == \E body \in ExecuteBodies : POST(body)

SpecExecute == InitExecute /\ [][NextExecute]_vars

\* SpecTodos: any sequence of calls of todo_manager, each made by a request
\* to the execute route.  TodoRequest is the body of such a request.
TodoRequest(payload) ==
  [toolName |-> "todo_manager", mode |-> Undefined, input |-> payload]

TodoRequests == {TodoRequest(payload) : payload \in TodoPayloads}

NextTodos == \E body \in TodoRequests : POST(body)

SpecTodos == InitExecute /\ [][NextTodos]_vars

\* SpecKb: a call of kb_lookup, made by a request to the execute route.  The
\* tool keeps no state, so a behaviour is one request.
KbRequest(payload) ==
  [toolName |-> "kb_lookup", mode |-> Undefined, input |-> payload]

KbRequests == {KbRequest(payload) : payload \in KbPayloads}

NextKb == response = NoResponse /\ \E body \in KbRequests : POST(body)

SpecKb == InitExecute /\ [][NextKb]_vars

(***************************************************************************)
(* SpecConcurrent: several invocations of createAgentResponse in one       *)
(* process, all calling runTool of the one tools module.  An invocation    *)
(* gives way to the others only where it awaits: the model's response      *)
(* (fetch and reader.read) and the promise of runTool.  runTool is an      *)
(* async function with no await before its return, so the tool has run     *)
(* when runTool(...) returns its promise, and the invocation goes on when  *)
(* the await is resumed.  exch[e] is the invocation e: its pc, the tool    *)
(* calls of its turn that are not yet settled (the first one has run when  *)
(* pc is "tool", its promise being result), and log, the calls settled so  *)
(* far with what they returned.                                            *)
(***************************************************************************)
ToolCallOf(name, input) == [name |-> name, input |-> input]

\* The tool calls a turn of the model can ask for.
ConcurrentCalls ==
  {ToolCallOf("todo_manager", AddPayload(JsString(<<"t">>), JsUndefined)),
   ToolCallOf("todo_manager", CompletePayload(JsString(<<"todo-005">>))),
   ToolCallOf("todo_manager", ListPayload(JsString(<<"all">>))),
   ToolCallOf("run_javascript", [kind |-> "object", members |-> {"S"}])}

TurnCalls ==
  {<<>>} \cup {<<c>> : c \in ConcurrentCalls}
         \cup {<<c, d>> : c \in ConcurrentCalls, d \in ConcurrentCalls}

\* createAgentResponse is called and start() runs up to the first await.
ExchangeStarts(e) ==
  /\ exch[e].pc = "idle"
  /\ exch' = [exch EXCEPT ![e].pc = "model"]
  /\ UNCHANGED <<loopvars, turn, reads, turnvars, routevars, sd, reply, ui>>

\* The last read of a turn is resumed and streamClaudeTurn returns the tool
\* calls of the turn; the loop goes on when its await is resumed.
TurnEnds(e, calls) ==
  /\ exch[e].pc = "model"
  /\ Len(exch[e].log) + Len(calls) <= MaxCalls
  /\ exch' = [exch EXCEPT ![e].pc = "returned", ![e].calls = calls]
  /\ UNCHANGED <<loopvars, turn, reads, turnvars, routevars, sd, reply, ui>>

\* The model request or a read fails: the catch block ends the invocation.
TurnFails(e) ==
  /\ exch[e].pc = "model"
  /\ exch' = [exch EXCEPT ![e].pc = "failed"]
  /\ UNCHANGED <<loopvars, turn, reads, turnvars, routevars, sd, reply, ui>>

\* await streamClaudeTurn(...) is resumed: with no tool calls the loop
\* breaks; otherwise runTool is called for the first call, the tool runs,
\* and the invocation awaits the promise.
LoopResumes(e) ==
  LET x == exch[e]
      call == Head(x.calls)
      ran == runToolOnStore(call.name, call.input, todos)
  IN /\ x.pc = "returned"
     /\ IF x.calls = <<>>
          THEN /\ exch' = [exch EXCEPT ![e].pc = "done"]
               /\ UNCHANGED todos
          ELSE /\ Len(ran.todos) <= MaxTodos
               /\ todos' = ran.todos
               /\ exch' = [exch EXCEPT ![e] = [pc |-> "tool", calls |-> x.calls,
                                               log |-> x.log, result |-> ran.settled]]
     /\ UNCHANGED <<loopvars, turn, reads, turnvars, response, invoked, sd, reply, ui>>

\* await runTool(...) is resumed: a rejected promise ends the invocation in
\* the catch block; otherwise the tool message is pushed and either the next
\* call of the turn runs or the next turn is requested.
ToolResumes(e) ==
  LET x == exch[e]
      settledLog == Append(x.log, [call |-> Head(x.calls), value |-> x.result.value])
      rest == Tail(x.calls)
      ran == runToolOnStore(Head(rest).name, Head(rest).input, todos)
  IN /\ x.pc = "tool"
     /\ IF x.result.settled = "rejected"
          THEN /\ exch' = [exch EXCEPT ![e] = [pc |-> "failed", calls |-> x.calls,
                                               log |-> x.log]]
               /\ UNCHANGED todos
        ELSE IF rest = <<>>
          THEN /\ exch' = [exch EXCEPT ![e] = [pc |-> "model", calls |-> <<>>,
                                               log |-> settledLog]]
               /\ UNCHANGED todos
        ELSE /\ Len(ran.todos) <= MaxTodos
             /\ todos' = ran.todos
             /\ exch' = [exch EXCEPT ![e] = [pc |-> "tool", calls |-> rest,
                                             log |-> settledLog, result |-> ran.settled]]
     /\ UNCHANGED <<loopvars, turn, reads, turnvars, response, invoked, sd, reply, ui>>

NextConcurrent ==
  \E e \in Exchanges :
    \/ ExchangeStarts(e)
    \/ \E calls \in TurnCalls : TurnEnds(e, calls)
    \/ TurnFails(e)
    \/ LoopResumes(e)
    \/ ToolResumes(e)

SpecConcurrent == InitExecute /\ [][NextConcurrent]_vars

(***************************************************************************)
(* SpecAgentRoute: POST /api/agent in front of createAgentResponse (both   *)
(* variants, side by side).  reply is the answer to the last request.      *)
(***************************************************************************)
\* A session whose messages are not iterable: the spread in
\* createAgentResponse throws.
BadSession == [given |-> TRUE, id |-> "s", messages |-> <<>>, iterable |-> FALSE]

AgentBody(promptValue, sess) == [prompt |-> promptValue, session |-> sess]

PromptValues ==
  {JsUndefined, JsNull, JsString(<<>>), JsNumber(0), JsNumber(10), JsArray(<<>>),
   JsString(<<"p">>), JsString(<<" ">>)}

\* Mutant: only the type of the prompt is checked.
PromptRefused_TypeOnly(payload) ==
  payload \in {NullBody, NumberBody} \/ ~IsString(payload.prompt)

\* !payload?.prompt || typeof payload.prompt !== "string"
PromptRefused(payload) ==
  \/ payload \in {NullBody, NumberBody}
  \/ ~Truthy(payload.prompt)
  \/ ~IsString(payload.prompt)

BadRequest(message) == [status |-> 400, error |-> message]

\* POST /api/agent with the body payload, lastSession being the only session
\* a caller can hold.  One request is let through to createAgentResponse;
\* requests that are refused come at any time before, during and after its
\* exchange.
AgentPOST(payload) ==
  IF payload = MalformedBody
    THEN /\ reply' = BadRequest("Invalid JSON payload")
         /\ UNCHANGED <<loopvars, turn, reads, turnvars, routevars, sd, exch, ui>>
  ELSE IF PromptRefused(payload)
    THEN /\ reply' = BadRequest("prompt must be a non-empty string")
         /\ UNCHANGED <<loopvars, turn, reads, turnvars, routevars, sd, exch, ui>>
  ELSE IF payload.session = BadSession
    THEN /\ reply' = [status |-> 500, error |-> "TypeError"]
         /\ UNCHANGED <<loopvars, turn, reads, turnvars, routevars, sd, exch, ui>>
  ELSE /\ exchanges = 0
       /\ CreateAgentResponse(payload.prompt.chars, payload.session)
       /\ sd' = SdCreate(sd, payload.prompt.chars, payload.session, apiKey)
       /\ reply' = [status |-> 200, body |-> "stream"]
       /\ UNCHANGED <<exch, ui>>

\* What one read of the model's response can deliver behind the route.
RouteChunks ==
  {StartText(0) \o TextDelta(0, <<"a">>),
   StartTool(0, "tu1", "run_javascript") \o InputJsonDelta(0, <<"{", "G", "}">>)
     \o BlockStop(0),
   ErrorFrame}

AgentBodies ==
  {MalformedBody, NullBody, NumberBody}
    \cup {AgentBody(v, sess) : v \in PromptValues, sess \in {NoSession, lastSession, BadSession}}

NextAgentRoute ==
  \/ \E payload \in AgentBodies : AgentPOST(payload)
  \/ \E outcome \in FetchOutcomes :
       FetchSettles(outcome) /\ sd' = SdFetchSettles(sd, outcome) /\ UNCHANGED sidevars
  \/ \E chunk \in RouteChunks :
       Read(chunk) /\ sd' = SdRead(sd, chunk) /\ UNCHANGED sidevars
  \/ ReadDone /\ sd' = SdReadDone(sd) /\ UNCHANGED sidevars
  \/ ToolSettles /\ sd' = SdToolSettles(sd) /\ UNCHANGED sidevars

SpecAgentRoute == Init /\ [][NextAgentRoute]_vars

(***************************************************************************)
(* The client component AgentDemo (specification SpecClient).              *)
(*                                                                         *)
(* The component posts a prompt with the session it holds and reads the    *)
(* response body, which is the outbound stream of createAgentResponse: one *)
(* line per event, one event per read.  The events come out of JSON.parse  *)
(* as they went into JSON.stringify (MessageEvent and SessionEvent hold    *)
(* the stringified messages).  streamAgentResponse is an async function:   *)
(* its awaits (the fetch, each reader.read()) are where the server's steps *)
(* and the user's submits come in between.  One request is followed at a   *)
(* time: a prompt submitted while an earlier response is still being       *)
(* delivered is outside the model (OneAtATime).                            *)
(***************************************************************************)
TypedPrompts == {<<" ">>, <<" ", "p">>}

ClientFetchFailures == {"network_error"}

\* The message of the Error the fetch ends in.
ClientFetchFailure(failure) ==
  IF failure = "not_ok" THEN "Agent request failed with 500"
  ELSE IF failure = "no_body" THEN "The agent did not return a stream."
  ELSE "Failed to fetch"

\* The message reader.read() rejects with when the body is cut.
ReadFailure == "network error"

\* resetForNewTurn()
resetForNewTurn(u) == [u EXCEPT !.assistantDraft = <<>>, !.error = <<>>]

\* Mutant: the done event leaves isStreaming set.
OnDone_KeepsStreaming(u) == u

\* case "done"
OnDone(u) == [u EXCEPT !.isStreaming = FALSE]

\* Mutant: the session event sets the session and leaves the messages.
OnSession_KeepsMessages(u, event) ==
  [u EXCEPT !.session = [given |-> TRUE, id |-> event.session.id,
                         messages |-> event.session.messages]]

\* case "session": setSession(event.session); setMessages(event.session.messages)
OnSession(u, event) ==
  [u EXCEPT !.session = [given |-> TRUE, id |-> event.session.id,
                         messages |-> event.session.messages],
            !.messages = event.session.messages]

\* handleEvent(event)
handleEvent(u, event) ==
  CASE event.type = "assistant-delta" ->
         [u EXCEPT !.assistantDraft = @ \o event.text]
    [] event.type = "message" ->
         [u EXCEPT !.messages = Append(@, event.message),
                   !.assistantDraft =
                     IF event.message.role = "assistant" THEN <<>> ELSE @]
    [] event.type \in {"tool-request", "tool-call", "tool-result"} ->
         [u EXCEPT !.timeline = Append(@, event)]
    [] event.type = "session" -> OnSession(u, event)
    [] event.type = "error" ->
         [u EXCEPT !.error = <<event.message>>, !.isStreaming = FALSE]
    [] event.type = "done" -> OnDone(u)
    [] OTHER -> u

\* The catch block of streamAgentResponse.
CatchRequestError(u, message) ==
  [u EXCEPT !.error = <<message>>, !.isStreaming = FALSE]

\* The response the component reads has nothing more to deliver.
ResponseOver ==
  /\ stream.state \in {"errored", "closed"}
  /\ ui.handled = Len(stream.received)

\* The call of streamAgentResponse before this one has returned, or all it
\* has left to do is to see the end of its response.
OneAtATime == ui.pc = "idle" \/ (ui.pc = "reading" /\ ResponseOver)

\* handleSubmit: nothing happens for a blank prompt or while isStreaming is
\* set; otherwise streamAgentResponse runs up to its fetch: isStreaming is
\* set, the draft and the error are reset, the request is sent with the
\* session the component holds.  An earlier call that has yet to see its
\* response end in an error will run its catch block later.
HandleSubmit(typed) ==
  LET nextPrompt == StringTrim(typed)
  IN IF nextPrompt = <<>> \/ ui.isStreaming
       THEN UNCHANGED vars
       ELSE /\ OneAtATime
            /\ ui' = [resetForNewTurn([ui EXCEPT !.isStreaming = TRUE])
                        EXCEPT !.pc = "fetching",
                               !.body = [prompt |-> nextPrompt, session |-> ui.session],
                               !.handled = 0,
                               !.staleRejects =
                                 IF ui.pc = "reading" /\ stream.state = "errored"
                                   THEN @ + 1 ELSE @]
            /\ UNCHANGED <<loopvars, turn, reads, turnvars, routevars, sd, exch, reply>>

\* The request reaches the route, createAgentResponse runs up to its first
\* await and the response comes back with its body: getReader().
RequestArrives ==
  /\ ui.pc = "fetching"
  /\ CreateAgentResponse(ui.body.prompt, ui.body.session)
  /\ ui' = [ui EXCEPT !.pc = "reading", !.handled = 0]
  /\ UNCHANGED <<sd, exch, reply>>

\* The fetch rejects, or the response is not ok or has no body: the catch
\* block.
RequestFails(failure) ==
  /\ ui.pc = "fetching"
  /\ ui' = [CatchRequestError(ui, ClientFetchFailure(failure)) EXCEPT !.pc = "idle"]
  /\ UNCHANGED <<loopvars, turn, reads, turnvars, routevars, sd, exch, reply>>

\* await reader.read()
ClientReads ==
  /\ ui.pc = "reading"
  /\ ui.handled = Len(stream.received)
  /\ stream.reader = "open"
  /\ ~stream.readPending
  /\ stream' = ReaderRead(stream)
  /\ UNCHANGED <<invocationvars, turn, reads, turnvars, routevars, sd, sidevars>>

\* The read has delivered a line: JSON.parse and handleEvent.
ClientHandles ==
  /\ ui.pc = "reading"
  /\ ui.handled < Len(stream.received)
  /\ ui' = handleEvent([ui EXCEPT !.handled = @ + 1], stream.received[ui.handled + 1])
  /\ UNCHANGED <<loopvars, turn, reads, turnvars, routevars, sd, exch, reply>>

\* The read reports the end of the body (the function returns) or rejects
\* (the catch block).
ClientReadEnds ==
  /\ ui.pc = "reading"
  /\ ui.handled = Len(stream.received)
  /\ stream.reader \in {"done", "rejected"}
  /\ ui' = IF stream.reader = "done" THEN [ui EXCEPT !.pc = "idle"]
           ELSE [CatchRequestError(ui, ReadFailure) EXCEPT !.pc = "idle"]
  /\ UNCHANGED <<loopvars, turn, reads, turnvars, routevars, sd, exch, reply>>

\* The last read of an earlier call rejects: its catch block.
StaleReadRejects ==
  /\ ui.staleRejects > 0
  /\ ui' = [CatchRequestError(ui, ReadFailure) EXCEPT !.staleRejects = @ - 1]
  /\ UNCHANGED <<loopvars, turn, reads, turnvars, routevars, sd, exch, reply>>

\* What one read of the model's response can deliver while the component
\* watches: a text block or a tool call.
ToolChunks ==
  {StartTool(0, "tu1", "run_javascript") \o InputJsonDelta(0, <<"{", "G", "}">>)
     \o BlockStop(0)}

ClientChunks == {StartText(0) \o TextDelta(0, <<"a">>)} \cup ToolChunks

\* A turn of the model is one block at most, and it asks for a tool only
\* while the loop may still issue the request that follows the tool's result.
ChunkFits(chunk) ==
  /\ turn.content = <<>>
  /\ chunk \in ToolChunks => requests < MaxTurns

NextClient ==
  \/ \E typed \in TypedPrompts : HandleSubmit(typed)
  \/ RequestArrives
  \/ \E failure \in ClientFetchFailures : RequestFails(failure)
  \/ ClientReads
  \/ ClientHandles
  \/ ClientReadEnds
  \/ StaleReadRejects
  \/ \E outcome \in {"ok", "http_error"} :
       FetchSettles(outcome) /\ UNCHANGED <<sd, sidevars>>
  \/ \E chunk \in ClientChunks :
       ChunkFits(chunk) /\ Read(chunk) /\ UNCHANGED <<sd, sidevars>>
  \/ ReadDone /\ UNCHANGED <<sd, sidevars>>
  \/ ToolSettles /\ UNCHANGED <<sd, sidevars>>

\* The fetch of the component settles one way or the other.
RequestSettles == RequestArrives \/ \E failure \in ClientFetchFailures : RequestFails(failure)

\* The fetch of the loop settles one way or the other.
ModelFetchSettles ==
  \E outcome \in {"ok", "http_error"} : FetchSettles(outcome) /\ UNCHANGED <<sd, sidevars>>

\* What the component does by itself once a prompt is submitted.
ClientSteps ==
  \/ RequestSettles
  \/ ClientReads
  \/ ClientHandles
  \/ ClientReadEnds
  \/ StaleReadRejects

\* What the invocation does once the model's endpoint and the tools answer;
\* every body the endpoint sends ends.
ServerSteps ==
  \/ ModelFetchSettles
  \/ ReadDone /\ UNCHANGED <<sd, sidevars>>
  \/ ToolSettles /\ UNCHANGED <<sd, sidevars>>

\* The event loop of the browser runs every continuation that is ready and
\* so does the server's; every fetch and every tool call settles.
ClientFairness == WF_vars(ClientSteps) /\ WF_vars(ServerSteps)

SpecClient == Init /\ [][NextClient]_vars /\ ClientFairness

(***************************************************************************)
(* Properties of createAgentResponse (specification Spec).                 *)
(***************************************************************************)
TypeCount(ty) == Cardinality({i \in DOMAIN events : events[i].type = ty})

EventKind(e) == IF e.type = "message" THEN "message-" \o e.message.role ELSE e.type

\* C1: a turn that returns no tool call is the last thing the invocation
\* does (no model request and no runTool after it), the loop is Done, and the
\* outbound events end with message(assistant), session, done, with one
\* session and one done event in all.
C1_ZeroToolCallsEndInDone ==
  \A k \in DOMAIN history :
    (history[k].op = "turn" /\ history[k].calls = <<>>) =>
      /\ k = Len(history)
      /\ pc = "done"
      /\ TypeCount("session") = 1
      /\ TypeCount("done") = 1
      /\ Len(events) >= 3
      /\ EventKind(events[Len(events)]) = "done"
      /\ EventKind(events[Len(events) - 1]) = "session"
      /\ EventKind(events[Len(events) - 2]) = "message-assistant"

\* A second turn without tool calls, after a turn whose tools ran.
C1_Witness == pc = "done" /\ requests = 2 /\ TypeCount("tool-result") >= 1

\* The operations a turn with these calls is to be followed by.
RECURSIVE ExpectedOps(_)
ExpectedOps(calls) ==
  IF calls = <<>> THEN <<>>
  ELSE <<RunToolOp(Head(calls)), [op |-> "toolMessage", id |-> Head(calls).id]>>
       \o ExpectedOps(Tail(calls))

IsToolMessageFor(m, call) ==
  /\ m.role = "tool"
  /\ Len(m.content) = 1
  /\ m.content[1].type = "tool_result"
  /\ m.content[1].tool_use_id = call.id

\* C2: a turn that returns n >= 1 tool calls is followed by exactly n runTool
\* invocations in the order of the calls, each followed by its one tool
\* message, and only then by the next model request.  While the for loop is
\* at work the operations so far are a prefix of that.
C2_EveryToolCallRuns ==
  \A k \in DOMAIN history :
    (history[k].op = "turn" /\ history[k].calls # <<>>) =>
      LET calls == history[k].calls
          n == Len(calls)
          after == SubSeq(history, k + 1, Len(history))
          expected == ExpectedOps(calls)
      IN IF pc = "tool" /\ Len(after) < 2 * n
           THEN IsPrefix(after, expected)
           ELSE /\ IsPrefix(expected, after)
                /\ Len(after) > 2 * n =>
                     /\ after[2 * n + 1].op = "request"
                     /\ after[2 * n + 1].len = history[k].len + n
                /\ Len(conversation) >= history[k].len + n
                /\ \A i \in 1..n :
                     IsToolMessageFor(conversation[history[k].len + i], calls[i])

\* C3: the outbound events hold at most one terminal event (done or error),
\* it is the last event, and an invocation that has ended has exactly one.
Terminal(e) == e.type \in {"done", "error"}

C3_OneTerminalEvent ==
  LET T == {i \in DOMAIN events : Terminal(events[i])}
  IN /\ Cardinality(T) <= 1
     /\ T # {} => T = {Len(events)}
     /\ (pc \in {"done", "failed"}) <=> (T # {})

\* An invocation that failed after tools ran.
C3_Witness == pc = "failed" /\ TypeCount("tool-result") >= 1

TurnFatalMessages ==
  {FetchFailure("no_body"), FetchFailure("http_error"), "Claude streaming error"}

\* C4: after a turn-fatal failure (no body, a non-success status, an error
\* wire event) the error event is the only error event and the last event,
\* no session event was sent, and the failed request is the last operation:
\* no model request and no runTool follows it.
C4_TurnFatal ==
  \A i \in DOMAIN events :
    (events[i].type = "error" /\ events[i].message \in TurnFatalMessages) =>
      /\ i = Len(events)
      /\ TypeCount("error") = 1
      /\ TypeCount("session") = 0
      /\ pc = "failed"
      /\ history # <<>>
      /\ history[Len(history)].op = "request"

\* An error wire event in the second turn.
C4_Witness ==
  /\ pc = "failed"
  /\ requests = 2
  /\ events[Len(events)] = ErrorEvent("Claude streaming error")

(***************************************************************************)
(* The order of the outbound events, as two automata over the event kinds: *)
(* the order the events are sent in, and the order with the tool-call      *)
(* events inside the turn.  "reject" is the state after an event out of    *)
(* order.                                                                  *)
(***************************************************************************)
SentOrderStep(q, k) ==
  IF q = "start" THEN (IF k = "message-user" THEN "turn" ELSE "reject")
  ELSE IF q \in {"turn", "toolmsg"} /\ k \in {"assistant-delta", "tool-request"}
    THEN "turn"
  ELSE IF q \in {"turn", "toolmsg"} /\ k = "message-assistant" THEN "assistant"
  ELSE IF q \in {"turn", "toolmsg", "running"} /\ k = "error" THEN "end"
  ELSE IF q \in {"assistant", "toolmsg"} /\ k = "tool-call" THEN "running"
  ELSE IF q = "assistant" /\ k = "session" THEN "session"
  ELSE IF q = "running" /\ k = "tool-result" THEN "result"
  ELSE IF q = "result" /\ k = "message-tool" THEN "toolmsg"
  ELSE IF q = "session" /\ k = "done" THEN "end"
  ELSE "reject"

ToolCallInTurnStep(q, k) ==
  IF q = "start" THEN (IF k = "message-user" THEN "turn" ELSE "reject")
  ELSE IF q \in {"turn", "toolmsg"}
          /\ k \in {"assistant-delta", "tool-request", "tool-call"}
    THEN "turn"
  ELSE IF q \in {"turn", "toolmsg"} /\ k = "message-assistant" THEN "assistant"
  ELSE IF q \in {"turn", "toolmsg", "assistant", "result"} /\ k = "error" THEN "end"
  ELSE IF q \in {"assistant", "toolmsg"} /\ k = "tool-result" THEN "result"
  ELSE IF q = "assistant" /\ k = "session" THEN "session"
  ELSE IF q = "result" /\ k = "message-tool" THEN "toolmsg"
  ELSE IF q = "session" /\ k = "done" THEN "end"
  ELSE "reject"

RECURSIVE SentOrderRun(_, _)
SentOrderRun(q, evs) ==
  IF evs = <<>> THEN q
  ELSE SentOrderRun(SentOrderStep(q, EventKind(Head(evs))), Tail(evs))

RECURSIVE ToolCallInTurnRun(_, _)
ToolCallInTurnRun(q, evs) ==
  IF evs = <<>> THEN q
  ELSE ToolCallInTurnRun(ToolCallInTurnStep(q, EventKind(Head(evs))), Tail(evs))

C9_SessionRoundTrip ==
  chained =>
    LET n == Len(priorConversation)
    IN /\ Len(conversation) > n
       /\ StringifyMessages(SubSeq(conversation, 1, n))
            = StringifyMessages(priorConversation)
       /\ conversation[n + 1] = TextMessage("user", prompt)

\* The second exchange has run a tool on top of a first exchange whose
\* assistant message has a hole in its content.
C9_Witness ==
  /\ chained
  /\ Len(conversation) > Len(priorConversation) + 2
  /\ \E i \in DOMAIN priorConversation :
       \E j \in DOMAIN priorConversation[i].content :
         priorConversation[i].content[j] = Hole

\* The messages the invocation appended, after those of the given session.
Appended == SubSeq(conversation, Len(session.messages) + 1, Len(conversation))

\* C10: within an invocation a step leaves the conversation as it is or
\* appends one message at its end; the appended messages are the user message,
\* then per turn the assistant message followed by the tool messages of that
\* turn's calls, in the order of the calls.
AppendOnlyStep ==
  exchanges' = exchanges =>
    \/ conversation' = conversation
    \/ /\ Len(conversation') = Len(conversation) + 1
       /\ SubSeq(conversation', 1, Len(conversation)) = conversation

TurnOps == {k \in DOMAIN history : history[k].op = "turn"}

RoleOrder ==
  pc # "idle" =>
    /\ Len(Appended) >= 1
    /\ Appended[1].role = "user"
    /\ \A i \in 2..Len(Appended) :
         /\ Appended[i].role \in {"assistant", "tool"}
         /\ Appended[i].role = "assistant" => Appended[i - 1].role \in {"user", "tool"}
         /\ Appended[i].role = "tool" => Appended[i - 1].role \in {"assistant", "tool"}
    /\ Cardinality({i \in DOMAIN Appended : Appended[i].role = "assistant"})
         = Cardinality(TurnOps)
    /\ \A k \in TurnOps :
         LET at == history[k].len
             later == {history[j].len : j \in {j \in TurnOps : j > k}}
             upto == IF later = {} THEN Len(conversation)
                     ELSE (CHOOSE l \in later : \A m \in later : l <= m) - 1
         IN /\ conversation[at].role = "assistant"
            /\ upto - at <= Len(history[k].calls)
            /\ \A j \in (at + 1)..upto :
                 IsToolMessageFor(conversation[j], history[k].calls[j - at])

\* C10: the conversation is append-only within an invocation and its appended
\* messages keep the order user, then per turn assistant and its tool messages.
C10_AppendOnly == [][AppendOnlyStep]_vars /\ []RoleOrder

\* Two tool messages after one assistant message.
C10_Witness ==
  /\ Len(Appended) >= 4
  /\ Appended[Len(Appended)].role = "tool"
  /\ Appended[Len(Appended) - 1].role = "tool"

(***************************************************************************)
(* Tool calls and their results (specification Spec).                      *)
(***************************************************************************)
\* The tool messages that directly follow message k of ms.
FollowingToolMessages(ms, k) ==
  {i \in (k + 1)..Len(ms) : \A j \in (k + 1)..i : ms[j].role = "tool"}

ToolUsePositions(m) ==
  {j \in DOMAIN m.content : m.content[j].type = "tool_use"}

\* C11: in the conversation of a session event every ToolUse block of an
\* assistant message appended during the exchange has an id no other ToolUse
\* block of the message has, and exactly one of the tool messages directly
\* after the message carries a ToolResult for that id.
C11_ToolUseHasOneResult ==
  \A e \in DOMAIN events :
    events[e].type = "session" =>
      LET ms == events[e].session.messages
      IN \A k \in (Len(session.messages) + 1)..Len(ms) :
           ms[k].role = "assistant" =>
             \A j \in ToolUsePositions(ms[k]) :
               /\ \A j2 \in ToolUsePositions(ms[k]) :
                    ms[k].content[j2].id = ms[k].content[j].id => j2 = j
               /\ Cardinality({i \in FollowingToolMessages(ms, k) :
                                 ms[i].content[1].tool_use_id = ms[k].content[j].id})
                    = 1

\* C12: a runTool invocation is always followed by the tool message of its
\* call, whatever the tool does: the invocation that was started last is
\* still running, every other one has its tool message appended next.
C12_ToolFailureNeverFailsExchange ==
  \A k \in DOMAIN history :
    history[k].op = "runTool" =>
      IF k = Len(history) THEN pc = "tool"
      ELSE history[k + 1] = [op |-> "toolMessage", id |-> history[k].id]

UnknownToolMessage(name) == "Unknown tool: " \o name

\* C13: a tool-call event for a name that is not registered is followed by a
\* tool-result event with ok false and the message Unknown tool: <name>, then
\* by the tool message of the call (no error event); after that tool message
\* the loop goes on with the next call of the turn or the next model request.
C13_UnknownToolIsAToolFailure ==
  /\ \A i \in DOMAIN events :
       (events[i].type = "tool-call" /\ events[i].name \notin RegisteredTools) =>
         IF i = Len(events) THEN pc = "tool"
         ELSE /\ i + 2 <= Len(events)
              /\ events[i + 1].type = "tool-result"
              /\ events[i + 1].id = events[i].id
              /\ events[i + 1].ok = FALSE
              /\ events[i + 1].payload.message = UnknownToolMessage(events[i].name)
              /\ events[i + 2].type = "message"
              /\ IsToolMessageFor(events[i + 2].message, events[i])
              /\ events[i + 2].message.content[1].content.ok = FALSE
              /\ events[i + 2].message.content[1].content.message
                   = UnknownToolMessage(events[i].name)
  /\ \A k \in DOMAIN history :
       (history[k].op = "runTool" /\ history[k].name \notin RegisteredTools) =>
         IF k = Len(history) THEN pc = "tool"
         ELSE /\ k + 2 <= Len(history)
              /\ history[k + 1] = [op |-> "toolMessage", id |-> history[k].id]
              /\ history[k + 2].op \in {"runTool", "request"}

\* The loop has gone on to the second model request after a tool that is not
\* registered.
C13_Witness ==
  /\ pc = "fetch"
  /\ requests = 2
  /\ events[Len(events)].type = "message"
  /\ events[Len(events)].message.role = "tool"
  /\ events[Len(events)].message.content[1].content.ok = FALSE
  /\ events[Len(events)].message.content[1].content.message
       = UnknownToolMessage("delete_everything")

\* A tool-request event with this id and name is among the first n events.
ToolRequested(id, name, n) ==
  \E j \in 1..n :
    /\ events[j].type = "tool-request"
    /\ events[j].id = id
    /\ events[j].name = name

\* C18: the tool-request event of a tool-use block has been sent as soon as
\* the block is started, while its arguments are still pending (none of them
\* or only some of them processed); and every tool-call event is preceded by
\* a tool-request event with its id and name.
C18_ToolRequestFirst ==
  /\ pc = "read" =>
       \A i \in DOMAIN turn.pending :
         ToolRequested(turn.pending[i].id, turn.pending[i].name, Len(events))
  /\ \A i \in DOMAIN events :
       events[i].type = "tool-call" =>
         ToolRequested(events[i].id, events[i].name, i - 1)

\* A tool call whose arguments arrived after its tool-request event is
\* running.
C18_Witness ==
  /\ pc = "tool"
  /\ events[Len(events)].type = "tool-call"
  /\ events[Len(events)].input # EmptyObject

\* The session id of the invocation is that of the given session, and a
\* session event carries it.
SessionIdKept ==
  /\ (pc # "idle" /\ session.given) => sessionId = session.id
  /\ \A e \in DOMAIN events :
       events[e].type = "session" => events[e].session.id = sessionId

\* A step that starts an invocation without a session sets an id that neither
\* the invocation before nor the last session event had; a step within an
\* invocation leaves the id as it is.
SessionIdStep ==
  IF exchanges' # exchanges
    THEN ~session'.given => sessionId' \notin {"", sessionId, lastSession.id}
    ELSE sessionId' = sessionId

\* C14: the session event carries the id of the given session, or a newly
\* generated id when no session is given, and the id does not change during
\* the invocation.
C14_SessionIdFixed == []SessionIdKept /\ [][SessionIdStep]_vars

\* An exchange of two turns that was given a session has sent its session
\* event.
C14_Witness ==
  /\ pc = "done"
  /\ session.given
  /\ requests = 2
  /\ events[Len(events) - 1].session.id = session.id

\* The model requests and tool invocations started so far.
StartedOps(h) == {k \in DOMAIN h : h[k].op \in {"request", "runTool"}}

\* A started operation (model request, tool invocation) whose end (the
\* returned turn, the appended tool message) is not the next entry of the
\* history.
Outstanding ==
  {k \in StartedOps(history) :
     ~(/\ k < Len(history)
       /\ history[k + 1].op =
            (IF history[k].op = "request" THEN "turn" ELSE "toolMessage"))}

\* C17: at most one operation of an invocation is outstanding, and it is the
\* one started last: a model request or tool invocation starts only after
\* the one before it has ended.
C17_OneOperationOutstanding ==
  /\ Cardinality(Outstanding) <= 1
  /\ Outstanding \subseteq {Len(history)}
  /\ pc \in {"fetch", "read"} =>
       (Outstanding # {} /\ history[Len(history)].op = "request")
  /\ pc = "tool" => (Outstanding # {} /\ history[Len(history)].op = "runTool")

\* The second tool invocation of a turn is running.
C17_Witness ==
  /\ pc = "tool"
  /\ callIndex = 2
  /\ Len(turn.toolCalls) = 2

\* C23: when the API key is not set, an invocation issues no model request
\* and invokes no tool; it has failed, and its events are the user message
\* followed by one error event with the missing-key message (no session and
\* no done event).
C23_MissingKeyFailsBeforeAnyRequest ==
  (~apiKey /\ pc # "idle") =>
    /\ pc = "failed"
    /\ history = <<>>
    /\ requests = 0
    /\ events = <<MessageEvent(TextMessage("user", prompt)), ErrorEvent(MissingKey)>>

\* The second invocation without a key has failed.
C23_Witness ==
  /\ ~apiKey
  /\ pc = "failed"
  /\ exchanges = 2
  /\ events[Len(events)] = ErrorEvent(MissingKey)

\* The operation the history ends with ([op |-> "none"] for an empty one).
LastOp == IF history = <<>> THEN [op |-> "none"] ELSE history[Len(history)]

\* The invocation is Done exactly when the turn returned last had no tool
\* call.  It is Failed only when a model turn failed (its request is the last
\* operation, or the key is missing and no request was made), unless a tool
\* invocation did not return (it is the last operation: runTool raised).
\* Otherwise a request or a tool invocation is under way.
EndsOnlyByTurn ==
  /\ pc = "done" <=> (LastOp.op = "turn" /\ LastOp.calls = <<>>)
  /\ (pc = "failed" /\ LastOp.op # "runTool") => LastOp.op \in {"none", "request"}
  /\ (LastOp.op = "request" /\ pc # "failed") => pc \in {"fetch", "read"}
  /\ (LastOp.op = "runTool" /\ pc # "failed") => pc = "tool"
  /\ LastOp.op # "toolMessage"

\* When the last tool call of a turn has its result, the next model request
\* is issued, however many turns there have been.
NextTurnRequested ==
  (/\ pc = "tool"
   /\ callIndex = Len(turn.toolCalls)
   /\ Len(conversation') = Len(conversation) + 1
   /\ conversation'[Len(conversation')].role = "tool")
  => /\ pc' = "fetch"
     /\ requests' = requests + 1
     /\ history'[Len(history')] = RequestOp(conversation')

\* C26: no turn limit: as long as every tool invocation returns, an exchange
\* is Done or Failed if and only if a model turn returned zero tool calls or
\* failed; after a turn with tool calls the loop runs the tools and requests
\* the next turn, whatever the number of turns so far.
C26_EndsOnlyWhenTurnEndsIt ==
  []EndsOnlyByTurn /\ [][NextTurnRequested]_vars

\* The loop has requested the last turn the bound allows, after a turn whose
\* two tool calls got their results.
C26_Witness ==
  /\ pc = "fetch"
  /\ requests = MaxTurns
  /\ TypeCount("tool-result") >= 2

\* The content entries of the messages ms that are empty (a hole of the
\* array) or null (a hole once serialized).
EmptyEntries(ms) ==
  {<<i, j>> \in (DOMAIN ms) \X (0..3) :
     /\ j + 1 \in DOMAIN ms[i].content
     /\ ms[i].content[j + 1] \in {Hole, NullBlock}}

\* C28: the assistant message a turn returns has an entry for every started
\* position and no other entry: the conversation it is appended to has no
\* empty content entry, and the messages of a model request, as serialized,
\* have no null content entry.
C28_NoEmptyContentEntry ==
  /\ EmptyEntries(conversation) = {}
  /\ pc = "fetch" => EmptyEntries(StringifyMessages(conversation)) = {}

(***************************************************************************)
(* The outbound stream and its reader (specification SpecDeliver).         *)
(***************************************************************************)
\* C15: what the reader has received is at every moment the beginning of what
\* the orchestrator has emitted, in the same order, and once the reader's
\* reads have ended (with the end of the stream or with its error) it has
\* received every emitted event, the error event and those before it included.
C15_NothingDroppedOrReordered ==
  /\ IsPrefix(stream.received, events)
  /\ stream.reader \in {"done", "rejected"} => stream.received = events

\* C16: once the reader has cancelled the stream, no step of the invocation
\* issues a model request or starts a tool invocation.
C16_CancelStopsLoop ==
  [][(stream.reader = "cancelled" /\ exchanges' = exchanges)
       => StartedOps(history') = StartedOps(history)]_vars

\* The stream was cancelled while a tool invocation was running; the
\* invocation finished and the loop stopped.
C16_Witness ==
  /\ pc = "aborted"
  /\ stream.reader = "cancelled"
  /\ history # <<>>
  /\ history[Len(history)].op = "runTool"

(***************************************************************************)
(* Properties of streamClaudeTurn.                                         *)
(***************************************************************************)
\* What a turn hands back: the message, the tool calls, what it emitted, the
\* events it decoded, and whether it returned or threw.
TurnResult(st, ctl) ==
  [content |-> st.content, toolCalls |-> st.toolCalls, out |-> st.out,
   decoded |-> st.decoded, ctl |-> ctl]

\* The whole body arrives in one read, then the end of the body.
SingleRead(body) ==
  LET r == OnChunk(NewTurn(0), body)
  IN IF r.ctl = "more"
       THEN TurnResult(OnEndOfStream(r.st).st, TurnControl(OnEndOfStream(r.st).ctl))
       ELSE TurnResult(r.st, TurnControl(r.ctl))

\* C6 (specification SpecSplit): however the body is cut into reads, a turn
\* that has ended decoded the same events, built the same message and tool
\* calls, emitted the same and ended the same way as when the body arrives in
\* a single read.
C6_FragmentationInvariant ==
  tctl \in {"returned", "thrown"} => TurnResult(turn, tctl) = SingleRead(transcript)

\* A turn with a tool call and text emitted, one of whose reads ended inside
\* a blank line.
C6_Witness ==
  /\ tctl = "returned"
  /\ delivered.cutDelimiter
  /\ turn.toolCalls # <<>>

\* The text deltas for position i that were decoded after the last
\* content_block_start of a text block at i.
RECURSIVE DeltasSinceStart(_, _)
DeltasSinceStart(i, decoded) ==
  IF decoded = <<>> THEN <<>>
  ELSE LET e == decoded[Len(decoded)]
           before == SubSeq(decoded, 1, Len(decoded) - 1)
           d == IF e.data = {} THEN [none |-> TRUE] ELSE CHOOSE x \in e.data : TRUE
           forI == ~e.done /\ "index" \in DOMAIN d /\ d.index = i
       IN IF forI /\ EventName(e) = "content_block_start"
             /\ "content_block" \in DOMAIN d /\ d.content_block.type = "text"
            THEN <<>>
          ELSE IF forI /\ EventName(e) = "content_block_delta"
                  /\ "delta" \in DOMAIN d /\ d.delta.type = "text_delta"
            THEN DeltasSinceStart(i, before) \o d.delta.text
          ELSE DeltasSinceStart(i, before)

\* C7 (specification SpecTurn): the text of a Text block equals the
\* concatenation, in arrival order, of the text deltas sent to its position
\* since the block was started.
C7_TextIsConcatenation ==
  \A j \in DOMAIN turn.content :
    turn.content[j].type = "text" =>
      turn.content[j].text = DeltasSinceStart(j - 1, turn.decoded)

\* A returned message whose text block got two different deltas.
C7_Witness ==
  /\ tctl = "returned"
  /\ Len(turn.content) >= 1
  /\ turn.content[1].type = "text"
  /\ turn.content[1].text = <<"b", "a">>

\* The input the stopped block at position 0 was finalized with.
FinalizedInput == turn.content[1].input

InputFinalized ==
  /\ tctl = "stopped"
  /\ Len(turn.toolCalls) = 1
  /\ turn.toolCalls[1].id = "tu1"
  /\ turn.toolCalls[1].index = 0
  /\ turn.toolCalls[1].input = FinalizedInput
  /\ 0 \notin DOMAIN turn.pending

MalformedFrames == {MalformedFrame, MalformedErrorFrame}

\* C19 (specification SpecTurn): a read that delivers a frame whose payload
\* is no JSON leaves the whole state of the turn as it was (message, pending
\* inputs, tool calls, emitted events, buffer, decoded events) and the turn
\* goes on reading; so whatever comes later is processed as without it.
C19_MalformedFrameSkipped ==
  [][(reads' = reads + 1 /\ delivered' \in MalformedFrames)
       => (turn' = turn /\ tctl' = "reading")]_vars

\* A malformed error frame has been read after a tool-use block was started,
\* and the turn is still reading.
C19_Witness ==
  /\ tctl = "reading"
  /\ delivered = MalformedErrorFrame
  /\ turn.pending # <<>>
  /\ turn.out # <<>>

\* The delta and stop frames of SpecTurn for position i.
DeltaOrStopAt(i) ==
  {TextDelta(i, <<"a">>), TextDelta(i, <<"b">>), InputJsonDelta(i, <<"{">>),
   InputJsonDelta(i, <<"G", "}">>), BlockStop(i)}

\* C20 (specification SpecTurn): a read that delivers a delta or stop frame
\* for a position at which no block was started changes neither the message,
\* the pending inputs nor the tool calls, emits nothing, and the turn goes on
\* reading.
C20_OrphanIgnored ==
  [][\A i \in {0, 2} :
       (/\ reads' = reads + 1
        /\ delivered' \in DeltaOrStopAt(i)
        /\ ContentGet(turn.content, i) = Hole)
       => /\ turn'.content = turn.content
          /\ turn'.pending = turn.pending
          /\ turn'.toolCalls = turn.toolCalls
          /\ turn'.out = turn.out
          /\ tctl' = "reading"]_vars

\* What the turn hands back and what it emitted.
Built(st) == [content |-> st.content, toolCalls |-> st.toolCalls, out |-> st.out]

\* A read whose chunk holds a terminal frame ends the turn with what was built
\* from the part of the chunk before the terminal frame: the terminal frame is
\* the last event decoded and what follows it in the chunk is not applied.
EndsAtTerminalFrame ==
  (reads' = reads + 1 /\ delivered'.terminal # <<>>) =>
    LET r == OnChunk(turn, delivered'.before)
    IN /\ tctl' = "returned"
       /\ Built(turn') = Built(r.st)
       /\ Len(turn'.decoded) = Len(r.st.decoded) + 1

\* The end of the body ends the turn with what was built so far.
EndsAtEndOfBody ==
  (reads' = reads /\ tctl' # tctl) =>
    /\ tctl' = "returned"
    /\ Built(turn') = Built(turn)
    /\ turn'.decoded = turn.decoded

\* C21 (specification SpecEnd): a turn that is reading goes on reading until
\* a message_stop event, a [DONE] frame or the end of the body; it then
\* returns the message and tool calls built up to there, and the frames after
\* the terminal one in the same chunk change nothing and emit nothing.
C21_TurnEndsAtFirstTerminal ==
  [][EndsAtTerminalFrame /\ EndsAtEndOfBody
     /\ (tctl' = "returned" => (reads' = reads \/ delivered'.terminal # <<>>))]_vars

\* A turn with a tool call returned at message_stop, which an error frame
\* followed in the same chunk.
C21_Witness ==
  /\ tctl = "returned"
  /\ delivered.terminal = MessageStop
  /\ delivered.after = ErrorFrame
  /\ delivered.before = BlockStop(0)
  /\ turn.toolCalls # <<>>

\* The number of blank lines (two line breaks in a row) of a text.
BlankLines(s) == Cardinality({i \in 1..(Len(s) - 1) : s[i] = NL /\ s[i + 1] = NL})

\* The characters received so far, and how many of them have left the buffer.
Received == SubSeq(transcript, 1, pos)
Consumed == Len(Received) - Len(turn.buffer)

\* C22 (specification SpecSplit): the buffer holds the characters received
\* after the blank line of the last frame taken out of it, and only whole
\* frames are taken out: what was taken out ends with a blank line, no more
\* events were decoded than blank lines were taken out, a turn that is
\* reading has no blank line left in its buffer, and a last frame that the
\* body never terminates is still at the end of the buffer when the body has
\* ended.
C22_OnlyCompleteFramesApplied ==
  /\ Consumed >= 0
  /\ turn.buffer = SubSeq(Received, Consumed + 1, Len(Received))
  /\ Consumed > 0 =>
       (Consumed > 1 /\ Received[Consumed] = NL /\ Received[Consumed - 1] = NL)
  /\ Len(turn.decoded) <= BlankLines(SubSeq(Received, 1, Consumed))
  /\ tctl = "reading" => BlankLines(turn.buffer) = 0
  /\ (pos = Len(transcript)
        /\ Len(transcript) >= Len(UnterminatedFrame)
        /\ SubSeq(transcript, Len(transcript) - Len(UnterminatedFrame) + 1,
                  Len(transcript)) = UnterminatedFrame)
       => /\ Len(turn.buffer) >= Len(UnterminatedFrame)
          /\ SubSeq(turn.buffer, Len(turn.buffer) - Len(UnterminatedFrame) + 1,
                    Len(turn.buffer)) = UnterminatedFrame

\* The body ended in a content_block_stop frame without its blank line: the
\* turn returned with the tool-use block still pending and no tool call.
C22_Witness ==
  /\ tctl = "returned"
  /\ pos = Len(transcript)
  /\ turn.buffer = UnterminatedFrame
  /\ 0 \in DOMAIN turn.pending
  /\ turn.toolCalls = <<>>

(***************************************************************************)
(* Properties of the execute route (specification SpecExecute).            *)
(***************************************************************************)
\* The answer to a dry-run: the five fields of the registry entry.
Manifest(name) ==
  [status |-> 200,
   body |-> [ok |-> TRUE, mode |-> "dry-run",
             tool |-> [name |-> name, description |-> Tool(name).description,
                       inputSchema |-> Tool(name).inputSchema,
                       examples |-> Tool(name).examples,
                       categories |-> Tool(name).categories]]]

\* A request with mode dry-run for a registered tool answers with the
\* manifest, invokes no tool and leaves the todo list as it is.
DryRunStep ==
  \A body \in ExecuteBodies :
    ("mode" \in DOMAIN body /\ POST(body) /\ body.mode = "dry-run"
       /\ body.toolName \in RegisteredTools) =>
      /\ response' = Manifest(body.toolName)
      /\ invoked' = invoked
      /\ todos' = todos

\* C24: a dry-run request for a registered tool never invokes the tool: it
\* returns the manifest of the tool and leaves the todo list unchanged; and
\* runTool is reached only by a request whose mode is execute.
C24_DryRunNeverInvokes ==
  [](invoked # NoCall => invoked.mode = "execute") /\ [][DryRunStep]_vars

(***************************************************************************)
(* Pending tool inputs and tool calls of a turn (specification SpecTurn).  *)
(***************************************************************************)
PayloadOf(e) == IF e.data = {} THEN [none |-> TRUE] ELSE CHOOSE x \in e.data : TRUE

\* Among the decoded events, the last start of a tool-use block or stop for
\* position i is a start: a tool-use block was started at i and has not been
\* stopped since.
RECURSIVE ToolUseOpen(_, _)
ToolUseOpen(i, decoded) ==
  IF decoded = <<>> THEN FALSE
  ELSE LET e == decoded[Len(decoded)]
           before == SubSeq(decoded, 1, Len(decoded) - 1)
           d == PayloadOf(e)
           forI == ~e.done /\ "index" \in DOMAIN d /\ d.index = i
       IN IF forI /\ EventName(e) = "content_block_stop" THEN FALSE
          ELSE IF forI /\ EventName(e) = "content_block_start"
                  /\ "content_block" \in DOMAIN d /\ d.content_block.type = "tool_use"
            THEN TRUE
          ELSE ToolUseOpen(i, before)

\* Position i has a pending entry exactly when a tool-use block is open at
\* i, and then the block at i is the ToolUse block of the entry.
PendingIsOpenToolUse ==
  \A i \in {0, 2} :
    /\ (i \in DOMAIN turn.pending) <=> ToolUseOpen(i, turn.decoded)
    /\ (i \in DOMAIN turn.pending) =>
         /\ ContentGet(turn.content, i).type = "tool_use"
         /\ ContentGet(turn.content, i).id = turn.pending[i].id
         /\ ContentGet(turn.content, i).name = turn.pending[i].name

\* A read that delivers content_block_stop for i removes the pending entry
\* of i and appends one ToolCall; without a pending entry it changes nothing.
StopFinalizes ==
  \A i \in {0, 2} :
    (reads' = reads + 1 /\ delivered' = BlockStop(i)) =>
      IF i \in DOMAIN turn.pending
        THEN /\ i \notin DOMAIN turn'.pending
             /\ Len(turn'.toolCalls) = Len(turn.toolCalls) + 1
             /\ SubSeq(turn'.toolCalls, 1, Len(turn.toolCalls)) = turn.toolCalls
             /\ turn'.toolCalls[Len(turn'.toolCalls)].index = i
        ELSE /\ Built(turn') = Built(turn)
             /\ turn'.pending = turn.pending

\* C25 (specification SpecTurn): at every point of a turn the pending map
\* has an entry at i exactly when a tool-use block was started at i and not
\* yet stopped, and the block at i is then that ToolUse block; a
\* content_block_stop at i removes the entry and appends exactly one
\* ToolCall, and a second stop at i changes nothing.
C25_PendingMatchesOpenToolUse ==
  []PendingIsOpenToolUse /\ [][StopFinalizes]_vars

(***************************************************************************)
(* The two variants of createAgentResponse (specification SpecVariants).   *)
(***************************************************************************)
SharedTypes == {"message", "tool-request", "tool-call", "tool-result", "session"}

\* The events of the types both variants emit, in order.
RECURSIVE SharedEvents(_)
SharedEvents(evs) ==
  IF evs = <<>> THEN <<>>
  ELSE (IF Head(evs).type \in SharedTypes THEN <<Head(evs)>> ELSE <<>>)
       \o SharedEvents(Tail(evs))

\* C27 (specification SpecVariants): given the same inputs the StreamData
\* variant and the line-delimited variant are at the same point of the loop,
\* have the same session id, built the same conversation, made the same
\* model requests and tool invocations in the same order, and emitted the
\* same message, tool-request, tool-call, tool-result and session events in
\* the same order.
C27_VariantsAgree ==
  /\ sd.pc = pc
  /\ sd.sessionId = sessionId
  /\ sd.conversation = conversation
  /\ sd.history = history
  /\ sd.callIndex = callIndex
  /\ sd.data = SharedEvents(events)

\* Both variants have finished a second exchange, given the session of the
\* first, in which a tool ran.
C27_Witness ==
  /\ sd.pc = "done"
  /\ chained
  /\ Len(sd.data) >= 8
  /\ \E i \in DOMAIN sd.data : sd.data[i].type = "tool-result"
  /\ \E i \in DOMAIN sd.data : sd.data[i].type = "tool-request"

\* C30 (specification SpecVariants): when an invocation of the StreamData
\* variant has ended, by success or by failure, its text stream is closed or
\* errored (or its close is requested) and data.close() has been called.
C30_BothChannelsEnd ==
  sd.pc \in {"done", "failed"} =>
    /\ (sd.text.state \in {"closed", "errored"} \/ sd.text.closeRequested)
    /\ sd.dataClosed

\* The tool-request events the turn emitted.
ToolRequestsOut ==
  {k \in DOMAIN turn.out :
     turn.out[k].fn = "emitEvent" /\ turn.out[k].event.type = "tool-request"}

\* C29 (specification SpecTurn): when a turn has returned, every ToolCall
\* has the id, name and input of the ToolUse block at its position, every
\* ToolUse block of the message has exactly one ToolCall, and every
\* tool-request event the turn emitted has exactly one ToolCall with its id.
C29_ToolCallsMatchToolUseBlocks ==
  tctl = "returned" =>
    /\ \A c \in DOMAIN turn.toolCalls :
         LET call == turn.toolCalls[c]
             block == ContentGet(turn.content, call.index)
         IN /\ block.type = "tool_use"
            /\ block.id = call.id
            /\ block.name = call.name
            /\ block.input = call.input
    /\ \A j \in DOMAIN turn.content :
         turn.content[j].type = "tool_use" =>
           Cardinality({c \in DOMAIN turn.toolCalls :
                          turn.toolCalls[c].index = j - 1}) = 1
    /\ \A k \in ToolRequestsOut :
         Cardinality({c \in DOMAIN turn.toolCalls :
                        turn.toolCalls[c].id = turn.out[k].event.id}) = 1

(***************************************************************************)
(* Properties of todo_manager (specification SpecTodos).                   *)
(***************************************************************************)
\* The step is a request that ran todo_manager; TodoAnswer is what the tool
\* returned and TodoInput the payload it was given.
TodoCall ==
  /\ response'.status = 200
  /\ "toolName" \in DOMAIN response'.body
  /\ response'.body.toolName = "todo_manager"
  /\ invoked'.name = "todo_manager"

TodoAnswer == response'.body.response
TodoInput == invoked'.input

\* The action a payload names, "" when it names none.
ActionOf(input) ==
  IF "action" \in DOMAIN input /\ input.action.type = "string"
    THEN TextOf(input.action.chars) ELSE ""

\* todo-NNN for the number n, three digits.
PaddedId(n) == IF n < 10 THEN "todo-00" \o ToString(n) ELSE "todo-0" \o ToString(n)

IdsDistinct == \A i, j \in DOMAIN todos : todos[i].id = todos[j].id => i = j

\* No step removes or renames a todo, or takes a completed todo back to
\* pending.
TodosOnlyGrow ==
  /\ Len(todos') >= Len(todos)
  /\ \A i \in DOMAIN todos :
       /\ todos'[i].id = todos[i].id
       /\ todos'[i].title = todos[i].title
       /\ todos'[i].tags = todos[i].tags
       /\ todos[i].status = "completed" => todos'[i].status = "completed"

\* A successful add appends one pending todo with the next id and changes
\* nothing else.
AddAppendsOne ==
  (TodoCall /\ TodoAnswer.ok /\ ActionOf(TodoInput) = "add") =>
    /\ Len(todos') = Len(todos) + 1
    /\ SubSeq(todos', 1, Len(todos)) = todos
    /\ todos'[Len(todos')].id = PaddedId(Len(todos) + 1)
    /\ todos'[Len(todos')].status = "pending"
    /\ TodoAnswer.result.item = todos'[Len(todos')]

\* A successful complete changes the status of the named todo only, and
\* doing it again changes nothing.
CompleteSetsOne ==
  (TodoCall /\ TodoAnswer.ok /\ ActionOf(TodoInput) = "complete") =>
    LET id == TextOf(StringTrim(TodoInput.id.chars))
    IN /\ Len(todos') = Len(todos)
       /\ \A i \in DOMAIN todos :
            todos'[i] = IF todos[i].id = id
                          THEN [todos[i] EXCEPT !.status = "completed"]
                          ELSE todos[i]
       /\ TodoAnswer.result.item.id = id
       /\ TodoAnswer.result.item.status = "completed"
       /\ runTodoManager(todos', TodoInput).todos = todos'
       /\ runTodoManager(todos', TodoInput).value = TodoAnswer

\* C32: after any sequence of todo_manager calls the list has only grown, a
\* successful add has appended exactly one pending todo with id todo-NNN
\* (NNN the previous length plus one) and changed no other item, the ids are
\* pairwise distinct, a successful complete has set only the named item's
\* status to completed and is idempotent, and no status goes from completed
\* back to pending.
C32_TodoListEvolves ==
  []IdsDistinct /\ [][TodosOnlyGrow /\ AddAppendsOne /\ CompleteSetsOne]_vars

\* Two todos were added and one of the added ones was completed.
C32_Witness ==
  /\ Len(todos) = 5
  /\ todos[4].status = "completed"
  /\ todos[5].status = "pending"
  /\ todos[1].status = "completed"

\* The todos a list call is to return.
ExpectedList(tds, input) ==
  LET wanted == IF input.filter = JsUndefined THEN "pending"
                ELSE TextOf(input.filter.chars)
  IN IF wanted = "all" THEN tds
     ELSE SeqFilter(tds, {t \in {tds[i] : i \in DOMAIN tds} : t.status = wanted})

\* The payloads that todo_manager is to refuse.
Refused(tds, input) ==
  LET action == ActionOf(input)
  IN \/ action \notin {"list", "add", "complete"}
     \/ /\ action = "list"
        /\ input.filter # JsUndefined
        /\ \/ input.filter.type # "string"
           \/ /\ input.filter.chars # <<>>
              /\ TextOf(input.filter.chars) \notin {"all", "pending", "completed"}
     \/ /\ action = "add"
        /\ \/ input.title.type # "string"
           \/ StringTrim(input.title.chars) = <<>>
           \/ /\ input.tags # JsUndefined
              /\ \/ input.tags.type # "array"
                 \/ \E i \in DOMAIN input.tags.items : input.tags.items[i].type # "string"
     \/ /\ action = "complete"
        /\ \/ input.id.type # "string"
           \/ StringTrim(input.id.chars) = <<>>
           \/ \A i \in DOMAIN tds : tds[i].id # TextOf(StringTrim(input.id.chars))

\* A call that fails, and a list call, leave the list as it is; a list call
\* returns the todos the filter asks for.
FailureAndListStep ==
  (TodoCall /\ "action" \in DOMAIN TodoInput) =>
    /\ TodoAnswer.ok = ~Refused(todos, TodoInput)
    /\ ~TodoAnswer.ok => todos' = todos
    /\ (TodoAnswer.ok /\ ActionOf(TodoInput) = "list") =>
         /\ todos' = todos
         /\ TodoAnswer.result.items = ExpectedList(todos, TodoInput)

\* C33: todo_manager leaves the todo list unchanged whenever it returns a
\* failure (non-string or unsupported action, invalid filter, missing title,
\* invalid tags, missing or unknown id) and on every list call; a list call
\* returns the todos whose status equals the filter, all todos for the filter
\* all, and the pending todos when the filter is left out.
C33_FailuresAndListsLeaveTodos == [][FailureAndListStep]_vars

\* A list call with the filter completed has answered with two todos after
\* one was completed.
C33_Witness ==
  /\ invoked # NoCall
  /\ invoked.name = "todo_manager"
  /\ ActionOf(invoked.input) = "list"
  /\ response.status = 200
  /\ "response" \in DOMAIN response.body
  /\ response.body.response.ok
  /\ Len(response.body.response.result.items) = 2
  /\ invoked.input.filter = JsString(<<"completed">>)

(***************************************************************************)
(* Properties of concurrent exchanges (specification SpecConcurrent).      *)
(***************************************************************************)
\* The todo_manager calls that have run: those settled and, for an
\* invocation that awaits its promise, the one that has just run.
RanCalls(e) ==
  IF exch[e].pc = "tool" /\ exch[e].result.settled = "resolved"
    THEN Append(exch[e].log,
                [call |-> Head(exch[e].calls), value |-> exch[e].result.value])
    ELSE exch[e].log

IsSuccessful(entry, action) ==
  /\ entry.call.name = "todo_manager"
  /\ entry.value.ok
  /\ ActionOf(entry.call.input) = action

RECURSIVE CountSuccessful(_, _)
CountSuccessful(log, action) ==
  IF log = <<>> THEN 0
  ELSE (IF IsSuccessful(Head(log), action) THEN 1 ELSE 0)
         + CountSuccessful(Tail(log), action)

RECURSIVE SumOver(_, _)
SumOver(es, action) ==
  IF es = {} THEN 0
  ELSE LET e == CHOOSE x \in es : TRUE
       IN CountSuccessful(RanCalls(e), action) + SumOver(es \ {e}, action)

\* Every add that succeeded is in the list under the id it was told, and
\* every todo that was completed with success is completed in the list.
NoneLost ==
  \A e \in Exchanges : \A k \in DOMAIN RanCalls(e) :
    LET entry == RanCalls(e)[k]
    IN /\ IsSuccessful(entry, "add") =>
            \E i \in DOMAIN todos :
              /\ todos[i].id = entry.value.result.item.id
              /\ todos[i].title = entry.value.result.item.title
              /\ todos[i].tags = entry.value.result.item.tags
       /\ IsSuccessful(entry, "complete") =>
            \E i \in DOMAIN todos :
              /\ todos[i].id = entry.value.result.item.id
              /\ todos[i].status = "completed"

\* C31: when several exchanges run concurrently in one process and
\* interleave where they await, every todo_manager call runs atomically on
\* the shared list: the list holds one item per successful add, the ids are
\* pairwise distinct, and no add or complete is lost.
C31_TodoCallsAtomic ==
  /\ Len(todos) = Len(InitialTodos) + SumOver(Exchanges, "add")
  /\ IdsDistinct
  /\ NoneLost

\* Two invocations have each added a todo, and one of them has completed the
\* todo the other one added while that one was still running.
C31_Witness ==
  /\ Len(todos) = 5
  /\ \E e, f \in Exchanges :
       /\ e # f
       /\ CountSuccessful(RanCalls(e), "add") = 1
       /\ CountSuccessful(RanCalls(f), "add") = 1
       /\ CountSuccessful(RanCalls(e), "complete") = 1
       /\ exch[f].pc \in {"tool", "returned", "model"}
       /\ todos[5].status = "completed"
       /\ RanCalls(f)[1].value.result.item.id = "todo-005"

(***************************************************************************)
(* Properties of kb_lookup (specification SpecKb).                         *)
(***************************************************************************)
\* The payloads kb_lookup is to refuse: a missing or blank query, tags that
\* are not an array of strings, a topK that is not a finite number.
KbRefused(p) ==
  \/ p.query.type # "string"
  \/ StringTrim(p.query.chars) = <<>>
  \/ /\ p.tags # JsUndefined
     /\ \/ p.tags.type # "array"
        \/ \E i \in DOMAIN p.tags.items : p.tags.items[i].type # "string"
  \/ /\ p.topK # JsUndefined
     /\ \/ p.topK.type # "number"
        \/ ~p.topK.finite

\* topK floored and clamped to 1..5, 3 when it is left out.
KbLimit(p) ==
  IF p.topK = JsUndefined THEN 3
  ELSE CHOOSE k \in 1..5 :
         LET floor == CHOOSE f \in -100..100 : 10 * f <= p.topK.tenths /\ p.topK.tenths < 10 * (f + 1)
         IN \/ floor = k
            \/ floor < 1 /\ k = 1
            \/ floor > 5 /\ k = 5

\* The entries that match the query in the title, the summary or a tag and,
\* when tags are requested, carry one of them.
KbWanted(p) ==
  LET q == ToLowerCase(StringTrim(p.query.chars))
      requested == IF p.tags = JsUndefined THEN {}
                   ELSE {TextOf(ToLowerCase(p.tags.items[i].chars)) : i \in DOMAIN p.tags.items}
  IN {i \in DOMAIN KNOWLEDGE_BASE :
        LET entry == KNOWLEDGE_BASE[i]
            entryTags == {ToLowerCase(entry.tags[t]) : t \in DOMAIN entry.tags}
        IN /\ \/ Includes(ToLowerCase(entry.title), q)
              \/ Includes(ToLowerCase(entry.summary), q)
              \/ \E tag \in entryTags : Includes(tag, q)
           /\ requested # {} => \E tag \in entryTags : TextOf(tag) \in requested}

\* The first k wanted entries.
KbFirst(p) ==
  {i \in KbWanted(p) : Cardinality({j \in KbWanted(p) : j < i}) < KbLimit(p)}

KbAnswerIsRight ==
  LET p == invoked.input
      answer == response.body.response
  IN IF KbRefused(p) THEN ~answer.ok
     ELSE /\ answer.ok
          /\ Len(answer.result.items) = Cardinality(KbFirst(p))
          /\ \A n \in DOMAIN answer.result.items :
               \E i \in KbFirst(p) :
                 /\ Cardinality({j \in KbFirst(p) : j < i}) = n - 1
                 /\ answer.result.items[n] = KNOWLEDGE_BASE[i]

\* C34: kb_lookup with a valid payload returns, in corpus order, the first k
\* entries that match the query in title, summary or a tag and, when tags
\* are given, carry at least one requested tag, k being topK floored and
\* clamped to 1..5, and 3 when topK is left out; a missing or blank query,
\* tags that are not strings or a topK that is not finite give a failure.
C34_KbLookupReturnsFirstMatches ==
  (invoked # NoCall /\ invoked.name = "kb_lookup") => KbAnswerIsRight

\* A query that every entry matches was answered with the first two entries
\* that carry a requested tag, topK being 2.7.
C34_Witness ==
  /\ invoked # NoCall
  /\ invoked.name = "kb_lookup"
  /\ invoked.input =
       KbPayload(JsString(<<" ", "AN", " ">>),
                 JsArray(<<JsString(<<"pl", "an", "ning">>), JsString(<<"trace">>)>>),
                 JsNumber(27))
  /\ response.body.response.ok
  /\ Len(response.body.response.result.items) = 2
  /\ response.body.response.result.items[1].id = "kb-002"
  /\ response.body.response.result.items[2].id = "kb-004"

(***************************************************************************)
(* Requests the execute route refuses (specification SpecExecute).         *)
(***************************************************************************)
\* The request carries no tool name.
NamesNoTool(body) == "toolName" \notin DOMAIN body \/ body.toolName \in {Undefined, ""}

\* A request without a tool name is answered 400, one that names a tool that
\* is not registered 404, and neither invokes a tool or changes the todos.
RefusalStep ==
  \A body \in ExecuteBodies :
    POST(body) =>
      /\ NamesNoTool(body) =>
           /\ response'.status = 400
           /\ invoked' = invoked
           /\ todos' = todos
      /\ (~NamesNoTool(body) /\ body.toolName \notin RegisteredTools) =>
           /\ response'.status = 404
           /\ response'.body.message = "Unknown tool: " \o body.toolName
           /\ invoked' = invoked
           /\ todos' = todos

\* C35: the execute route invokes runTool only for a request that names a
\* registered tool and is not a dry-run; a request without a tool name is
\* answered 400 and one that names a tool that is not registered is answered
\* 404 with the message Unknown tool: <name>, in both cases without invoking
\* a tool or changing the state of a tool.
C35_RefusedRequestsInvokeNothing ==
  /\ [](invoked # NoCall =>
          invoked.name \in RegisteredTools /\ invoked.mode # "dry-run")
  /\ [][RefusalStep]_vars

(***************************************************************************)
(* Properties of the agent route (specification SpecAgentRoute).           *)
(***************************************************************************)
\* The body is valid JSON with a prompt that is a non-empty string.
HasPrompt(payload) ==
  /\ "prompt" \in DOMAIN payload
  /\ payload.prompt.type = "string"
  /\ payload.prompt.chars # <<>>

\* A request without such a prompt is answered 400 and leaves both variants
\* of the orchestrator, the outbound streams and the tools as they are; an
\* invocation starts with a request that has one.
AgentRouteStep ==
  /\ \A payload \in AgentBodies :
       (AgentPOST(payload) /\ ~HasPrompt(payload)) =>
         /\ reply'.status = 400
         /\ UNCHANGED <<invocationvars, stream, turn, sd, todos, invoked>>
  /\ exchanges' # exchanges =>
       \E payload \in AgentBodies : HasPrompt(payload) /\ AgentPOST(payload)

\* C36: the agent route starts an orchestrator invocation only for a request
\* whose body is valid JSON with a non-empty string prompt; any other
\* request is answered 400 without a model request, a tool invocation or an
\* outbound event.
C36_AgentRouteRefusesBadRequests == [][AgentRouteStep]_vars

\* A request was refused after an exchange that ran to its end, whose events
\* and session are untouched.
C36_Witness ==
  /\ reply.status = 400
  /\ pc = "done"
  /\ exchanges = 1
  /\ Len(events) >= 4
  /\ sd.pc = "done"

(***************************************************************************)
(* Properties of the client component (specification SpecClient).          *)
(***************************************************************************)
\* No call of streamAgentResponse is running.
AtRest == ui.pc = "idle" /\ ui.staleRejects = 0

\* The step sends a request.
SendsRequest == ui'.pc = "fetching" /\ ui.pc # "fetching"

\* The step handles an event of one of these types.
HandlesOneOf(types) ==
  /\ ui.pc = "reading"
  /\ ui'.handled = ui.handled + 1
  /\ stream.received[ui.handled + 1].type \in types

\* The step runs the catch block: the fetch failed or a read rejected.
CatchRuns ==
  \/ ui.pc = "fetching" /\ ui'.pc = "idle"
  \/ ui.pc = "reading" /\ ui'.pc = "idle" /\ stream.reader = "rejected"
  \/ ui'.staleRejects < ui.staleRejects

\* isStreaming is set by the step that sends a request, which is taken only
\* when it is not set; a done event, an error event and the catch block
\* clear it, and nothing else does.
StreamingStep ==
  /\ SendsRequest => ~ui.isStreaming /\ ui'.isStreaming
  /\ (ui'.isStreaming /\ ~ui.isStreaming) => SendsRequest
  /\ (HandlesOneOf({"done", "error"}) \/ CatchRuns) => ~ui'.isStreaming
  /\ (ui.isStreaming /\ ~ui'.isStreaming) =>
       HandlesOneOf({"done", "error"}) \/ CatchRuns

C38_TranscriptPrefixOfNextSession ==
  AtRest => IsPrefix(ui.messages, ui.session.messages)

\* The body of a request carries the session the component holds, and the
\* session it holds changes only when it handles a session event.
SessionStep ==
  /\ SendsRequest => ui'.body.session = ui.session
  /\ ui'.session # ui.session => HandlesOneOf({"session"})

\* C38, amended: the session the client sends with the next prompt is the
\* one of the last session event it handled (none before the first); its
\* conversation is a prefix of the transcript displayed, and equal to it
\* whenever the component is at rest without an error.  Messages shown from
\* a failed exchange are on display beyond that prefix and are not part of
\* the session sent with the following prompt.
C38_SessionPrefixOfTranscript ==
  /\ [](IsPrefix(ui.session.messages, ui.messages))
  /\ []((AtRest /\ ui.error = <<>>) => ui.messages = ui.session.messages)
  /\ [][SessionStep]_vars

\* A second exchange has failed after a first one that ended with done: the
\* transcript shows messages of the failed exchange beyond the conversation
\* of the session that the next prompt will carry.
C38_Witness ==
  /\ AtRest
  /\ exchanges = 2
  /\ pc = "failed"
  /\ ui.session.given
  /\ Len(ui.messages) > Len(ui.session.messages)
  /\ ui.error # <<>>

====
